---- MODULE Spec2Model ----
(***************************************************************************)
(* mcp-sandbox: the Sandboxed Executor (ToolExecutor), the session object  *)
(* (MCPSandbox) and the Protocol Server (MCPServer): its request/response  *)
(* channel (POST /mcp/jsonrpc), its push channel (GET /sse) and its        *)
(* maintenance timers.                                                     *)
(*                                                                         *)
(* JavaScript values are modelled as follows.  An optional value is a      *)
(* sequence of length at most one: <<>> is undefined, <<v>> is v.  A plain  *)
(* object used as an argument bag is the sequence of its <<key, value>>    *)
(* pairs in insertion order, which is the order Object.values follows for  *)
(* identifier keys.  Time is kept by clocks in milliseconds: the clock of a *)
(* call is Date.now() - startTime, and it runs from the moment startTime   *)
(* is taken.                                                               *)
(***************************************************************************)
EXTENDS FiniteSets, Integers, Sequences, TLC

VARIABLES options, serverOptions, reflectorTimeout, executor, listening,
          sseClients, slots, last, pingIntervals, sweepsDue, stopped, api

vars == <<options, serverOptions, reflectorTimeout, executor, listening,
          sseClients, slots, last, pingIntervals, sweepsDue, stopped, api>>

----------------------------------------------------------------------------
(* Bounds of the model *)

\* number of JSON-RPC requests that can be in flight at the same time
MaxInFlight == 2
\* granularity of the clock: every duration of the model is a multiple of it
Quantum == 2500
\* no call is observed for longer than this many quanta
MaxTicks == 3
\* number of loadModule calls over a run
MaxLoads == 2
\* number of push clients that connect over a run
MaxClients == 2
\* number of push clients that connect over a run in which the maintenance
\* timers run and tools are executed
MaxWatchers == 1

----------------------------------------------------------------------------
(* Program constants *)

\* default of the timeout parameter of ToolExecutor's constructor
ExecutorDefaultTimeout == 5000
\* default of the timeout parameter of ModuleReflector's constructor
ReflectorDefaultTimeout == 5000
\* options.timeout || 5000 in MCPServer's constructor
ServerDefaultTimeout == 5000
\* JSON-RPC internal error code used by handleMCPRequest
InternalErrorCode == -32603
\* period of the staleness sweep and of the heartbeat of a push client
SweepInterval == 30000
\* a push client is stale when its last activity is older than this
StaleAfter == 60000

None == <<>>
Some(v) == <<v>>
IsSome(o) == Len(o) = 1
Get(o) == o[1]

----------------------------------------------------------------------------
(* ModuleReflector: signatures read from source text *)

(***************************************************************************)
(* A source text is the sequence of its lexical tokens: a word (a maximal  *)
(* run of \w characters), one white-space character, one quote, or one     *)
(* punctuation mark.  The comment delimiters and the arrow are one token   *)
(* each.  The regular expressions of ModuleReflector are matched token by  *)
(* token; no word of the inputs contains the word function, and no         *)
(* parameter list of the inputs contains an arrow.                         *)
(***************************************************************************)
Whitespace == {" ", "\n"}

Quotes == {"'", "\""}

\* a token that is neither white space nor a quote nor a mark
IsWord(t) ==
  t \notin Whitespace \cup Quotes
           \cup {"(", ")", ",", "=", "=>", "{", "}", "[", "]", ";", ".", "*",
                 "/**", "*/"}

\* the words for which Number(word) is a number; Number of any other word
\* of the inputs, such as 1_000, is NaN
Numerals == {"0", "1", "2", "3", "10"}

\* the characters of a word after toLowerCase(), for the parameter names of
\* the inputs; a mark is its own character
Spelling(word) ==
  CASE word = "a" -> <<"a">>
    [] word = "b" -> <<"b">>
    [] word = "radius" -> <<"r", "a", "d", "i", "u", "s">>
    [] word = "Count" -> <<"c", "o", "u", "n", "t">>
    [] word = "flag" -> <<"f", "l", "a", "g">>
    [] word = "list" -> <<"l", "i", "s", "t">>
    [] word = "options" -> <<"o", "p", "t", "i", "o", "n", "s">>
    [] OTHER -> <<word>>

\* the string a text stands for
RECURSIVE Text(_)
Text(t) == IF t = <<>> THEN "" ELSE Head(t) \o Text(Tail(t))

\* String.prototype.trim
RECURSIVE Trim(_)
Trim(t) ==
  IF t = <<>> THEN t
  ELSE IF Head(t) \in Whitespace THEN Trim(Tail(t))
  ELSE IF t[Len(t)] \in Whitespace THEN Trim(SubSeq(t, 1, Len(t) - 1))
  ELSE t

\* String.prototype.split(sep) for a separator of one token
RECURSIVE Split(_, _)
Split(t, sep) ==
  IF \E i \in 1..Len(t) : t[i] = sep
  THEN LET i == CHOOSE i \in 1..Len(t) :
                  t[i] = sep /\ \A j \in 1..(i - 1) : t[j] # sep
       IN  <<SubSeq(t, 1, i - 1)>> \o Split(SubSeq(t, i + 1, Len(t)), sep)
  ELSE <<t>>

\* the position after the white space that starts at position i
RECURSIVE SkipSpace(_, _)
SkipSpace(t, i) ==
  IF i <= Len(t) /\ t[i] \in Whitespace THEN SkipSpace(t, i + 1) ELSE i

\* \(([^)]*)\) at position i: the position of the closing parenthesis, 0
\* when the pattern does not match there
CloseParen(t, i) ==
  IF i <= Len(t) /\ t[i] = "(" /\ \E j \in (i + 1)..Len(t) : t[j] = ")"
  THEN CHOOSE j \in (i + 1)..Len(t) :
         t[j] = ")" /\ \A k \in (i + 1)..(j - 1) : t[k] # ")"
  ELSE 0

\* funcStr.match(...) of extractParameters: the text captured by the group
\* of the leftmost match, None when nothing matches.  HeadEnds lists, for
\* the three alternatives of the head of the pattern,
\*   function\s*\w*\s*  |  \w+\s*=>  |  \([^)]*\)\s*=>
\* tried at position i, the position after the alternative, 0 when it fails.
ParameterList(t) ==
  LET HeadEnds(i) ==
        LET afterName == SkipSpace(t, i + 1)
            afterWord == IF afterName <= Len(t) /\ IsWord(t[afterName])
                         THEN afterName + 1 ELSE afterName
            close == CloseParen(t, i)
            afterClose == SkipSpace(t, close + 1)
        IN  << IF t[i] = "function" THEN SkipSpace(t, afterWord) ELSE 0,
               IF IsWord(t[i]) /\ afterName <= Len(t) /\ t[afterName] = "=>"
               THEN afterName + 1 ELSE 0,
               IF close # 0 /\ afterClose <= Len(t) /\ t[afterClose] = "=>"
               THEN afterClose + 1 ELSE 0 >>
      GroupAfter(end) == IF end = 0 THEN 0
                         ELSE CloseParen(t, SkipSpace(t, end))
      Group(i, a) == GroupAfter(HeadEnds(i)[a])
      Leftmost(matches) ==
        CHOOSE m \in matches :
          \A n \in matches : m[1] < n[1] \/ (m[1] = n[1] /\ m[2] <= n[2])
      Captured(m) == SubSeq(t, SkipSpace(t, HeadEnds(m[1])[m[2]]) + 1,
                            Group(m[1], m[2]) - 1)
      Match(matches) == IF matches = {} THEN None
                        ELSE Some(Captured(Leftmost(matches)))
  IN  Match({m \in (1..Len(t)) \X (1..3) : Group(m[1], m[2]) # 0})

\* the characters of a text
RECURSIVE Characters(_)
Characters(t) ==
  IF t = <<>> THEN <<>> ELSE Spelling(Head(t)) \o Characters(Tail(t))

\* inferParameterType: from the default value if its literal is recognised,
\* else from the parameter's name; Named(part) is name.includes(part)
inferParameterType(param) ==
  LET FromName(chars) ==
        LET Named(part) == \E i \in 0..(Len(chars) - Len(part)) :
                             SubSeq(chars, i + 1, i + Len(part)) = part
        IN  IF \/ Named(<<"c", "o", "u", "n", "t">>)
               \/ Named(<<"n", "u", "m">>)
               \/ Named(<<"s", "i", "z", "e">>)
            THEN "number"
            ELSE IF \/ Named(<<"f", "l", "a", "g">>)
                    \/ Named(<<"e", "n", "a", "b", "l", "e">>)
                    \/ Named(<<"i", "s">>)
            THEN "boolean"
            ELSE IF \/ Named(<<"l", "i", "s", "t">>)
                    \/ Named(<<"a", "r", "r", "a", "y">>)
            THEN "array"
            ELSE IF \/ Named(<<"c", "o", "n", "f", "i", "g">>)
                    \/ Named(<<"o", "p", "t", "i", "o", "n", "s">>)
            THEN "object"
            ELSE "string"
      FromDefault(defaultValue, name) ==
        IF defaultValue \in {<<"true">>, <<"false">>} THEN "boolean"
        ELSE IF \/ defaultValue = <<>>
                \/ (Len(defaultValue) = 1 /\ defaultValue[1] \in Numerals)
        THEN "number"
        ELSE IF defaultValue[1] \in Quotes THEN "string"
        ELSE IF defaultValue[1] = "[" THEN "array"
        ELSE IF defaultValue[1] = "{" THEN "object"
        ELSE FromName(Characters(name))
      Infer(pieces) ==
        IF Len(pieces) > 1
        THEN FromDefault(Trim(pieces[2]), Trim(pieces[1]))
        ELSE FromName(Characters(Trim(pieces[1])))
  IN  Infer(Split(param, "="))

\* extractParameters: the pieces between the commas of the parameter list,
\* trimmed, the empty ones dropped, each made an MCPToolParameter; the
\* brackets and braces of a destructuring pattern are removed from the name
extractParameters(funcStr) ==
  LET Parameter(param) ==
        [name |-> Text(SelectSeq(Trim(Split(param, "=")[1]),
                                 LAMBDA tok : tok \notin {"{", "}", "[", "]"})),
         hasDefault |-> \E i \in 1..Len(param) : param[i] = "=",
         type |-> inferParameterType(param)]
      Kept(pieces) ==
        SelectSeq([i \in 1..Len(pieces) |-> Trim(pieces[i])],
                  LAMBDA piece : piece # <<>>)
      Parameters(kept) == [i \in 1..Len(kept) |-> Parameter(kept[i])]
      Matched(match) ==
        IF ~IsSome(match) \/ Get(match) = <<>> THEN <<>>
        ELSE Parameters(Kept(Split(Get(match), ",")))
  IN  Matched(ParameterList(funcStr))

\* a schema that describes only the parameters that have a default
generateParameterSchemaOfDefaults(params) ==
  LET kept == SelectSeq(params, LAMBDA p : p.hasDefault)
  IN  [i \in 1..Len(kept) |->
         [name |-> kept[i].name,
          type |-> kept[i].type,
          description |-> "Parameter: " \o kept[i].name,
          items |-> IF kept[i].type = "array"
                    THEN Some([type |-> "string"]) ELSE None]]

\* generateParameterSchema: one property per parameter name, in the order
\* of the first assignment to the name; a later parameter of the same name
\* replaces the property.  No parameter name of the inputs is an integer.
RECURSIVE generateParameterSchema(_)
generateParameterSchema(params) ==
  IF params = <<>> THEN <<>>
  ELSE LET rest == SubSeq(params, 1, Len(params) - 1)
           param == params[Len(params)]
           schema == generateParameterSchema(rest)
           property ==
             [name |-> param.name,
              type |-> param.type,
              description |-> "Parameter: " \o param.name,
              items |-> IF param.type = "array"
                        THEN Some([type |-> "string"]) ELSE None]
       IN  IF \E i \in 1..Len(schema) : schema[i].name = param.name
           THEN [i \in 1..Len(schema) |->
                   IF schema[i].name = param.name THEN property
                   ELSE schema[i]]
           ELSE Append(schema, property)

\* extractJSDoc: the text between the first /** of funcStr and the first */
\* after it, without the white space around it, its lines stripped of their
\* markers by line.replace(/^\s*\*\s?/, ''), joined by a blank and trimmed;
\* None when funcStr holds no such comment
extractJSDoc(funcStr) ==
  LET Opens(i) == funcStr[i] = "/**"
                  /\ \E j \in (i + 1)..Len(funcStr) : funcStr[j] = "*/"
      Starts == {i \in 1..Len(funcStr) : Opens(i)}
      StripMarker(line) ==
        LET star == SkipSpace(line, 1)
        IN  IF star <= Len(line) /\ line[star] = "*"
            THEN IF star < Len(line) /\ line[star + 1] \in Whitespace
                 THEN SubSeq(line, star + 2, Len(line))
                 ELSE SubSeq(line, star + 1, Len(line))
            ELSE line
      RECURSIVE Join(_)
      Join(lines) ==
        IF Len(lines) = 1 THEN StripMarker(lines[1])
        ELSE StripMarker(lines[1]) \o <<" ">> \o Join(Tail(lines))
  IN  IF Starts = {} THEN None
      ELSE LET i == CHOOSE i \in Starts : \A k \in Starts : i <= k
               j == CHOOSE j \in (i + 1)..Len(funcStr) :
                      /\ funcStr[j] = "*/"
                      /\ \A k \in (i + 1)..(j - 1) : funcStr[k] # "*/"
           IN  Some(Text(Trim(Join(
                      Split(Trim(SubSeq(funcStr, i + 1, j - 1)), "\n")))))

\* func.toString(): the source text of the callable, from its first token
\* to its last; what the module's source holds before the callable, such as
\* a comment in front of the declaration, is not part of it
toString(func) == func.text

\* analyzeFunction: the MCPTool of a callable.  An empty documentation text
\* is falsy, so the generated description replaces it.
analyzeFunction(name, func) ==
  LET RequiredNames(required) == [i \in 1..Len(required) |-> required[i].name]
      Tool(params, doc) ==
        [name |-> name,
         description |-> IF IsSome(doc) /\ Get(doc) # "" THEN Get(doc)
                         ELSE "Execute " \o name \o " function",
         properties |-> generateParameterSchema(params),
         required |->
           RequiredNames(SelectSeq(params, LAMBDA p : ~p.hasDefault)),
         handler |-> func.handler]
  IN  Tool(extractParameters(toString(func)), extractJSDoc(toString(func)))

\* a walk that stops at the members of the aggregate it is given
traverseMembersOnly(entries, prefix) ==
  LET callable == SelectSeq(entries, LAMBDA e : e[2].type = "function")
  IN  [i \in 1..Len(callable) |->
         analyzeFunction(IF prefix # "" THEN prefix \o "_" \o callable[i][1]
                         ELSE callable[i][1],
                         callable[i][2])]

\* traverse: the entries of an aggregate in the order of Object.entries; a
\* callable member becomes a tool, a member that is an object other than
\* null and an array is traversed with its name as the prefix, every other
\* member is passed over
RECURSIVE traverse(_, _)
traverse(entries, prefix) ==
  IF entries = <<>> THEN <<>>
  ELSE LET key == entries[1][1]
           value == entries[1][2]
           toolName == IF prefix # "" THEN prefix \o "_" \o key ELSE key
       IN  (IF value.type = "function"
            THEN <<analyzeFunction(toolName, value)>>
            ELSE IF value.type = "object"
            THEN traverse(value.entries, toolName)
            ELSE <<>>)
           \o traverse(Tail(entries), prefix)

\* analyzeExports: the tools of module.exports
analyzeExports(exports) ==
  IF exports.type = "function" THEN <<analyzeFunction("default", exports)>>
  ELSE IF exports.type = "object" THEN traverse(exports.entries, "")
  ELSE <<>>

----------------------------------------------------------------------------
(* Inputs *)

\* SandboxOptions.timeout handed to the MCPSandbox constructor
OptionTimeouts == {None, Some(Quantum)}

\* keys and values of the argument bags
ArgValue(k) == IF k = "a" THEN 1 ELSE 2

\* argument bags: a bag that leaves b out, and the two insertion orders of
\* the bag that holds a and b
ArgBags ==
  { << <<"a", ArgValue("a")>> >>,
    << <<"a", ArgValue("a")>>, <<"b", ArgValue("b")>> >>,
    << <<"b", ArgValue("b")>>, <<"a", ArgValue("a")>> >> }

\* tool names a client may ask for: registered, unregistered, empty
RequestedNames == {"pair", "nosuch", ""}

\* JSON-RPC ids: absent or a number
RequestIds == {None, Some(7)}

Methods == {"initialize", "notifications/initialized", "tools/list",
            "tools/call", "ping", "bogus"}

\* params of a tools/call request: absent, without a name, with an empty,
\* an unregistered or a registered name, with and without arguments
CallParams ==
  {None}
  \cup { Some([name |-> None, arguments |-> None]) }
  \cup { Some([name |-> Some(n), arguments |-> None]) : n \in RequestedNames }

ExecParams ==
  { Some([name |-> Some(n), arguments |-> None]) : n \in {"pair", "nosuch"} }
  \cup { Some([name |-> Some("pair"), arguments |-> Some(b)]) : b \in ArgBags }

\* the requests of the clients of the request/response channel
MCPMessages ==
  { [id |-> i, method |-> m, params |-> None] :
      i \in RequestIds, m \in Methods \ {"tools/call"} }
  \cup { [id |-> i, method |-> "tools/call", params |-> p] :
      i \in RequestIds, p \in CallParams }

\* the tools/call requests of one client that varies the argument bag
ExecMessages ==
  { [id |-> Some(7), method |-> "tools/call", params |-> p] : p \in ExecParams }

\* what a handler throws or rejects with: an Error of the host realm, an
\* Error of the module's vm context, or a bare string
Thrown ==
  { [kind |-> "hostError", text |-> "boom"],
    [kind |-> "contextError", text |-> "boom"],
    [kind |-> "string", text |-> ""] }

\* what one invocation of a handler does: return a value, throw, return a
\* promise that settles later, or return a promise that never settles; the
\* synchronous part of the handler runs for `busy` milliseconds
HandlerBehaviours ==
  { [kind |-> k, busy |-> 0, thrown |-> None] :
      k \in {"return", "async", "never"} }
  \cup { [kind |-> "throw", busy |-> 0, thrown |-> Some(t)] : t \in Thrown }

\* the same, and a handler that returns after keeping the thread busy
SlowHandlerBehaviours ==
  HandlerBehaviours
  \cup { [kind |-> "return", busy |-> 2 * Quantum, thrown |-> None] }

\* formal parameters of the callables of the loaded modules
HandlerParams(h) ==
  CASE h = "pair" -> <<"a", "b">>
    [] h = "now" -> <<>>
    [] h = "kinds" -> <<"Count", "flag", "list", "options", "b">>
    [] h = "named" -> <<"list", "Count", "flag", "options", "a">>
    [] h = "arrowPair" -> <<"a", "b">>
    [] h = "spread" -> <<"items", "n">>
    [] h \in {"circleArea", "arrowArea"} -> <<"radius">>
    [] OTHER -> <<"a">>

\* a formal parameter as the module declares it
Formal(name) == [name |-> name, default |-> None]

\* a formal parameter with a default value: the kind of the literal and its
\* source text
Defaulted(name, kind, literal) ==
  [name |-> name, default |-> Some([kind |-> kind, text |-> literal])]

\* the source text of a list of formal parameters
RECURSIVE FormalsText(_)
FormalsText(formals) ==
  IF formals = <<>> THEN <<>>
  ELSE <<Head(formals).name>>
       \o (IF IsSome(Head(formals).default)
           THEN <<" ", "=", " ">> \o Get(Head(formals).default).text
           ELSE <<>>)
       \o (IF Len(formals) > 1 THEN <<",", " ">> ELSE <<>>)
       \o FormalsText(Tail(formals))

\*   /**
\*    * Calculate the area
\*    * of a circle
\*    */
AreaComment ==
  <<"/**", "\n", " ", "*", " ", "Calculate", " ", "the", " ", "area", "\n",
    " ", "*", " ", "of", " ", "a", " ", "circle", "\n", " ", "*/">>

\* a callable declared as
\*   <leading> function <name>(<formals>) {<inner> return [<names>]; }
\* where leading and inner are comments or nothing
FunctionDeclaration(name, formals, leading, inner) ==
  [type |-> "function", handler |-> name, formals |-> formals,
   leading |-> leading,
   text |-> <<"function", " ", name, "(">> \o FormalsText(formals)
            \o <<")", " ", "{">> \o inner \o <<" ", "return", " ", "[">>
            \o FormalsText([i \in 1..Len(formals) |->
                              Formal(formals[i].name)])
            \o <<"]", ";", " ", "}">>]

\* a callable declared as  <leading> (<formals>) => [<names>]
ArrowFunction(name, formals, leading) ==
  [type |-> "function", handler |-> name, formals |-> formals,
   leading |-> leading,
   text |-> <<"(">> \o FormalsText(formals) \o <<")", " ", "=>", " ", "[">>
            \o FormalsText([i \in 1..Len(formals) |->
                              Formal(formals[i].name)])
            \o <<"]">>]

\* the callables of the modules: pair, one and now without defaults and
\* comments; circleArea with the comment in front of the declaration, as in
\* examples/math-utils.js; noted with the same comment as the first
\* statement of its body; arrowArea an arrow function; kinds with one default
\* of every kind, under names that suggest another type; arrowPair the arrow
\* function (a, b) => [a, b]; spread with a default that holds a comma,
\* function spread(items = ['x', 'y'], n = 3); named with one parameter for
\* every type a name can suggest, and no defaults
Callables ==
  [pair |-> FunctionDeclaration("pair", <<Formal("a"), Formal("b")>>,
                                <<>>, <<>>),
   one |-> FunctionDeclaration("one", <<Formal("a")>>, <<>>, <<>>),
   now |-> FunctionDeclaration("now", <<>>, <<>>, <<>>),
   circleArea |->
     FunctionDeclaration("circleArea",
                         <<Defaulted("radius", "number", <<"1">>)>>,
                         AreaComment, <<>>),
   noted |-> FunctionDeclaration("noted", <<Formal("a")>>, <<>>,
                                 <<" ">> \o AreaComment),
   arrowArea |->
     ArrowFunction("arrowArea", <<Defaulted("radius", "number", <<"1">>)>>,
                   <<>>),
   kinds |->
     FunctionDeclaration("kinds",
       << Defaulted("Count", "boolean", <<"true">>),
          Defaulted("flag", "number", <<"2">>),
          Defaulted("list", "string", <<"'", "x", "'">>),
          Defaulted("options", "array", <<"[", "]">>),
          Defaulted("b", "object", <<"{", "}">>) >>,
       <<>>, <<>>),
   arrowPair |-> ArrowFunction("arrowPair", <<Formal("a"), Formal("b")>>,
                               <<>>),
   spread |->
     FunctionDeclaration("spread",
       << Defaulted("items", "array",
                    <<"[", "'", "x", "'", ",", " ", "'", "y", "'", "]">>),
          Defaulted("n", "number", <<"3">>) >>,
       <<>>, <<>>),
   named |->
     FunctionDeclaration("named",
       << Formal("list"), Formal("Count"), Formal("flag"),
          Formal("options"), Formal("a") >>,
       <<>>, <<>>)]

\* a value that is a plain object, with its entries in the order of
\* Object.entries; the other values are [type |-> "number"], [type |->
\* "null"] and [type |-> "array", items |-> ...]
Aggregate(entries) == [type |-> "object", entries |-> entries]

\* the directory of the module files
ModuleDir == <<"lib">>

\* the modules the host resolves: a built-in and a file next to the module
HostModules == { <<"fs">>, <<"lib", "helper">> }

\* a module file that is read, compiles and runs at once, requires nothing
\* and assigns module.exports
ModuleFile(exports) ==
  [exists |-> TRUE, compiles |-> TRUE, requires |-> <<>>, runs |-> 0,
   throws |-> None, exports |-> exports]

\* module.exports = { pair, one }
ExampleModule ==
  ModuleFile(Aggregate(<< <<"pair", Callables.pair>>,
                          <<"one", Callables.one>> >>))

\* modules whose exports collide, nest, and carry signatures to infer:
\*   { a_b: one, a: { b: pair } }  and  { a: { b: pair }, a_b: one }
\*   { math: { area: circleArea, deep: { one } },
\*     version: 1, items: [pair], nothing: null, now }
\*   { noted, arrowArea, kinds }
\*   { arrowPair, spread, named }
Modules ==
  [collidingFirst |->
     ModuleFile(Aggregate(
       << <<"a_b", Callables.one>>,
          <<"a", Aggregate(<< <<"b", Callables.pair>> >>)>> >>)),
   collidingLast |->
     ModuleFile(Aggregate(
       << <<"a", Aggregate(<< <<"b", Callables.pair>> >>)>>,
          <<"a_b", Callables.one>> >>)),
   nested |->
     ModuleFile(Aggregate(
       << <<"math", Aggregate(
             << <<"area", Callables.circleArea>>,
                <<"deep", Aggregate(<< <<"one", Callables.one>> >>)>> >>)>>,
          <<"version", [type |-> "number"]>>,
          <<"items", [type |-> "array", items |-> <<Callables.pair>>]>>,
          <<"nothing", [type |-> "null"]>>,
          <<"now", Callables.now>> >>)),
   signatures |->
     ModuleFile(Aggregate(<< <<"noted", Callables.noted>>,
                             <<"arrowArea", Callables.arrowArea>>,
                             <<"kinds", Callables.kinds>> >>)),
   inference |->
     ModuleFile(Aggregate(<< <<"arrowPair", Callables.arrowPair>>,
                             <<"spread", Callables.spread>>,
                             <<"named", Callables.named>> >>))]

\* the module files a session is asked to load: modules that export an
\* aggregate, a callable, a number; a path without a file, a file that does
\* not compile, modules that throw while they run or run for two quanta,
\* and modules that require a built-in, a file next to them, a missing file
ModuleFiles ==
  { ExampleModule, Modules.collidingFirst, Modules.collidingLast,
    Modules.nested, Modules.signatures, Modules.inference,
    ModuleFile(Callables.pair), ModuleFile([type |-> "number"]),
    [ExampleModule EXCEPT !.exists = FALSE],
    [ExampleModule EXCEPT !.compiles = FALSE],
    [ExampleModule EXCEPT !.runs = 2 * Quantum],
    [ExampleModule EXCEPT !.requires = << <<"fs">> >>],
    [ExampleModule EXCEPT !.requires = << <<".", "helper">> >>],
    [ExampleModule EXCEPT !.requires = << <<".", "absent">> >>] }
  \cup { [ExampleModule EXCEPT !.throws = Some(t)] : t \in Thrown }

\* what reflectModule returns for the example module
ReflectedTools == analyzeExports(ExampleModule.exports)

----------------------------------------------------------------------------
(* ToolExecutor *)

\* position of the entry of a name in the registry, 0 when there is none
IndexOf(tools, name) ==
  IF \E i \in 1..Len(tools) : tools[i].name = name
  THEN CHOOSE i \in 1..Len(tools) : tools[i].name = name
  ELSE 0

\* new ToolExecutor(context, timeout): the timeout parameter defaults to 5000
NewToolExecutor(context, timeoutArg) ==
  [context |-> context,
   timeout |-> IF IsSome(timeoutArg) THEN Get(timeoutArg)
               ELSE ExecutorDefaultTimeout,
   tools |-> <<>>]

\* a registry that keeps the first tool it is given under a name
addToolKeepingFirst(tools, tool) ==
  IF IndexOf(tools, tool.name) = 0 THEN Append(tools, tool) ELSE tools

\* a registry that keeps every tool it is given
addToolAppending(tools, tool) == Append(tools, tool)

\* Map.set keeps the position of an existing key and appends a new one
addTool(tools, tool) ==
  LET i == IndexOf(tools, tool.name)
  IN  IF i = 0 THEN Append(tools, tool) ELSE [tools EXCEPT ![i] = tool]

RECURSIVE addTools(_, _)
addTools(tools, new) ==
  IF new = <<>> THEN tools
  ELSE addTools(addTool(tools, Head(new)), Tail(new))

\* a registry that lists its tools latest first
getToolsLatestFirst(ex) ==
  [i \in 1..Len(ex.tools) |-> ex.tools[Len(ex.tools) + 1 - i]]

getTools(ex) == ex.tools

\* a lookup that falls back to the first tool of the registry
getToolOrFirst(ex, name) ==
  LET i == IndexOf(ex.tools, name)
  IN  IF i = 0 THEN (IF ex.tools = <<>> THEN None ELSE Some(ex.tools[1]))
      ELSE Some(ex.tools[i])

getTool(ex, name) ==
  LET i == IndexOf(ex.tools, name)
  IN  IF i = 0 THEN None ELSE Some(ex.tools[i])

\* Object.values(args)
ObjectValues(args) == [i \in 1..Len(args) |-> args[i][2]]

\* handler.apply(ctx, values): the i-th formal parameter is bound to the
\* i-th value, and to undefined when there is none
Apply(handler, values) ==
  [i \in 1..Len(HandlerParams(handler)) |->
     IF i <= Len(values) THEN Some(values[i]) ELSE None]

\* String(error) of an Error object: its name, then its message if any
ErrorToString(text) == IF text = "" THEN "Error" ELSE "Error: " \o text

\* error instanceof Error ? error.message : String(error), evaluated in the
\* host realm: an Error created inside the module's vm context is not an
\* instance of the host's Error
ErrorText(thrown) ==
  IF thrown.kind = "hostError" THEN thrown.text
  ELSE IF thrown.kind = "contextError" THEN ErrorToString(thrown.text)
  ELSE thrown.text

\* the ExecutionResult of the success branch; elapsed is
\* Date.now() - startTime
SuccessResult(toolName, value, elapsed) ==
  [success |-> TRUE, result |-> Some(value), error |-> None,
   toolName |-> toolName, executionTime |-> elapsed]

\* the ExecutionResult of the catch branch
FailureResult(toolName, thrown, elapsed) ==
  [success |-> FALSE, result |-> None, error |-> Some(ErrorText(thrown)),
   toolName |-> toolName, executionTime |-> elapsed]

\* an executeTool invocation that has not been made
NoCall ==
  [phase |-> "none", toolName |-> "", args |-> <<>>, clock |-> None,
   timerDelay |-> None, timerCleared |-> FALSE, invoked |-> FALSE,
   received |-> <<>>, kind |-> "", thrown |-> None,
   rejection |-> None, result |-> None]

NotFoundMessage(toolName) == "Tool '" \o toolName \o "' not found"

\* executeTool up to the point where it first waits: the lookup, the start
\* timestamp, the timer, the handler's synchronous part, clearTimeout, and
\* for a handler that returned or threw, the ExecutionResult.  The handler
\* keeps the thread for beh.busy ms, during which no timer callback runs.
executeTool(ex, toolName, args, beh) ==
  LET tool == getTool(ex, toolName)
      base == [NoCall EXCEPT !.toolName = toolName, !.args = args]
  IN  IF ~IsSome(tool)
      THEN [base EXCEPT !.phase = "rejected",
                        !.rejection = Some(NotFoundMessage(toolName))]
      ELSE
        LET received == Apply(Get(tool).handler, ObjectValues(args))
            ran == [base EXCEPT !.clock = Some(beh.busy),
                                !.timerDelay = Some(ex.timeout),
                                !.timerCleared = TRUE,
                                !.invoked = TRUE,
                                !.received = received,
                                !.kind = beh.kind]
        IN  CASE beh.kind = "return" ->
                   [ran EXCEPT !.phase = "resolved",
                      !.result = Some(SuccessResult(toolName, received,
                                                    beh.busy))]
              [] beh.kind = "throw" ->
                   [ran EXCEPT !.phase = "resolved",
                      !.thrown = beh.thrown,
                      !.result = Some(FailureResult(toolName, Get(beh.thrown),
                                                    beh.busy))]
              [] OTHER -> [ran EXCEPT !.phase = "pending"]

\* the rest of executeTool once the handler's promise settles: outcome is
\* <<>> when it resolves and <<thrown>> when it rejects
settle(call, outcome) ==
  [call EXCEPT
     !.phase = "resolved",
     !.thrown = outcome,
     !.result = Some(IF IsSome(outcome)
                     THEN FailureResult(call.toolName, Get(outcome),
                                        Get(call.clock))
                     ELSE SuccessResult(call.toolName, call.received,
                                        Get(call.clock)))]

----------------------------------------------------------------------------
(* ModuleReflector: loading a module *)

\* the require function of the sandbox: an id that starts with a dot is
\* resolved against the module's directory by path.resolve, every other id
\* is handed to the host's require as it is.  An id is the sequence of its
\* segments.  The value is the module the host resolves, None when the
\* host's require throws.
sandboxRequire(moduleDir, id) ==
  LET request == IF Head(id) = "."
                 THEN moduleDir \o SelectSeq(id, LAMBDA seg : seg # ".")
                 ELSE id
  IN  IF request \in HostModules THEN Some(request) ELSE None

\* this.analyzeExports(moduleExports) for every module file
Analysed == [file \in ModuleFiles |-> analyzeExports(file.exports)]

\* reflectModule: the file is read, run in a new context for at most
\* timeout ms, and module.exports is analysed.  Whatever is thrown on the
\* way is caught and thrown again as one Error.  The errors of readFile, of
\* the compiler, of the host's require and of the timeout are Errors of the
\* host realm; what the module throws is of the module's context.
reflectModule(file, timeout) ==
  LET Failed(thrown) ==
        [error |-> Some("Failed to reflect module: " \o ErrorText(thrown)),
         value |-> None]
      HostError(text) == [kind |-> "hostError", text |-> text]
      granted == [i \in 1..Len(file.requires) |->
                    sandboxRequire(ModuleDir, file.requires[i])]
  IN  IF ~file.exists
      THEN Failed(HostError("ENOENT: no such file or directory"))
      ELSE IF ~file.compiles THEN Failed(HostError("Unexpected token"))
      ELSE IF \E i \in 1..Len(granted) : ~IsSome(granted[i])
      THEN Failed(HostError("Cannot find module"))
      ELSE IF file.runs > timeout
      THEN Failed(HostError("Script execution timed out after "
                            \o ToString(timeout) \o "ms"))
      ELSE IF IsSome(file.throws) THEN Failed(Get(file.throws))
      ELSE [error |-> None,
            value |-> Some([tools |-> Analysed[file],
                            context |-> [bindings |->
                              [i \in 1..Len(granted) |-> Get(granted[i])]]])]

----------------------------------------------------------------------------
(* MCPServer: the request/response channel *)

\* JSON.stringify(value, null, 2) of an array of numbers; an undefined
\* element is written as null
RECURSIVE JsonItems(_)
JsonItems(arr) ==
  IF arr = <<>> THEN ""
  ELSE "\n  " \o (IF IsSome(Head(arr)) THEN ToString(Get(Head(arr)))
                    ELSE "null")
       \o (IF Len(arr) > 1 THEN "," ELSE "")
       \o JsonItems(Tail(arr))

JsonStringify(arr) ==
  IF arr = <<>> THEN "[]" ELSE "[" \o JsonItems(arr) \o "\n]"

\* the descriptor of a tool as served to clients: the handler is left out
ToolView(tool) ==
  [name |-> tool.name, description |-> tool.description,
   properties |-> tool.properties, required |-> tool.required]

ToolViews(tools) == [i \in 1..Len(tools) |-> ToolView(tools[i])]

ResultResponse(message, result) ==
  [id |-> message.id, result |-> Some(result), error |-> None]

\* an error response that drops the request's id
ErrorResponseWithoutId(message, text) ==
  [id |-> None, result |-> None,
   error |-> Some([code |-> InternalErrorCode, message |-> text])]

\* the catch clause of handleMCPRequest; every error it catches is an Error
\* of the host realm, so the response carries its message
ErrorResponse(message, text) ==
  [id |-> message.id, result |-> None,
   error |-> Some([code |-> InternalErrorCode, message |-> text])]

\* !message.params?.name
NameMissing(message) ==
  \/ ~IsSome(message.params)
  \/ ~IsSome(Get(message.params).name)
  \/ Get(Get(message.params).name) = ""

\* message.params.name as executeTool sees it; an absent name reads as
\* the word undefined in the executor's messages
CallName(message) ==
  IF IsSome(message.params) /\ IsSome(Get(message.params).name)
  THEN Get(Get(message.params).name) ELSE "undefined"

\* message.params.arguments || {}
CallArguments(message) ==
  IF IsSome(message.params) /\ IsSome(Get(message.params).arguments)
  THEN Get(Get(message.params).arguments) ELSE <<>>

\* a dispatch that does not check the name
CallsExecutorUnchecked(message) == message.method = "tools/call"

\* whether handleMCPRequest calls executeTool for the message
CallsExecutor(message) ==
  message.method = "tools/call" /\ ~NameMissing(message)

\* result.error || 'Tool execution failed'
FailureText(result) ==
  IF IsSome(result.error) /\ Get(result.error) # ""
  THEN Get(result.error) ELSE "Tool execution failed"

\* a tools/call case that reports a failed execution inside a result, as
\* POST /mcp/execute does
ToolCallResponseAsResult(message, call) ==
  IF call.phase = "rejected" THEN ErrorResponse(message, Get(call.rejection))
  ELSE
    LET result == Get(call.result)
    IN  ResultResponse(message,
          [content |-> << [type |-> "text",
                           text |-> IF result.success
                                    THEN JsonStringify(Get(result.result))
                                    ELSE "undefined"] >>,
           isError |-> ~result.success])

\* a tools/call case that reports an unknown tool inside a result
ToolCallResponseNotFoundAsResult(message, call) ==
  IF call.phase = "rejected"
  THEN ResultResponse(message,
         [content |-> << [type |-> "text", text |-> Get(call.rejection)] >>,
          isError |-> TRUE])
  ELSE
    LET result == Get(call.result)
    IN  IF ~result.success THEN ErrorResponse(message, FailureText(result))
        ELSE ResultResponse(message,
               [content |-> << [type |-> "text",
                                text |-> JsonStringify(Get(result.result))] >>,
                isError |-> FALSE])

\* the tools/call case after executeTool has finished
ToolCallResponse(message, call) ==
  IF call.phase = "rejected" THEN ErrorResponse(message, Get(call.rejection))
  ELSE
    LET result == Get(call.result)
    IN  IF ~result.success THEN ErrorResponse(message, FailureText(result))
        ELSE ResultResponse(message,
               [content |-> << [type |-> "text",
                                text |-> JsonStringify(Get(result.result))] >>,
                isError |-> FALSE])

\* a dispatch whose default case answers like ping
handleMCPRequestDefaultPong(message, ex) ==
  CASE message.method = "initialize" ->
         ResultResponse(message,
           [protocolVersion |-> "2024-11-05",
            serverInfo |-> [name |-> "mcp-sandbox", version |-> "1.0.0"]])
    [] message.method = "notifications/initialized" ->
         ResultResponse(message, [empty |-> TRUE])
    [] message.method = "tools/list" ->
         ResultResponse(message, [tools |-> ToolViews(getTools(ex))])
    [] message.method = "tools/call" ->
         ErrorResponse(message, "Tool name is required")
    [] OTHER ->
         ResultResponse(message, [pong |-> TRUE])

\* handleMCPRequest for a message that does not reach executeTool
handleMCPRequest(message, ex) ==
  CASE message.method = "initialize" ->
         ResultResponse(message,
           [protocolVersion |-> "2024-11-05",
            serverInfo |-> [name |-> "mcp-sandbox", version |-> "1.0.0"]])
    [] message.method = "notifications/initialized" ->
         ResultResponse(message, [empty |-> TRUE])
    [] message.method = "tools/list" ->
         ResultResponse(message, [tools |-> ToolViews(getTools(ex))])
    [] message.method = "tools/call" ->
         ErrorResponse(message, "Tool name is required")
    [] message.method = "ping" ->
         ResultResponse(message, [pong |-> TRUE])
    [] OTHER ->
         ErrorResponse(message, "Unknown method: " \o message.method)

\* the lines written to a client, in the order of the writes.  Of the lines
\* that are written again and again, the tool_result notifications and the
\* heartbeats, only the latest of each kind is kept.
Repeated == {"notifications/tool_result", ": heartbeat"}

Keeps(line, method) == ~(method \in Repeated /\ line.method = method)

Write(log, line) ==
  Append(SelectSeq(log, LAMBDA l : Keeps(l, line.method)), line)

\* sseClients.delete(clientId): the entry and its lastPing are gone.  The
\* lines written before are forgotten, so that `received` of a deleted
\* client lists what has been written to it since it was deleted.
delete(client) ==
  [client EXCEPT !.removed = TRUE, !.idle = 0, !.received = <<>>]

\* a value JSON.stringify throws on, such as an object that refers to
\* itself: it is no array of numbers and undefined elements
Circular == << <<0, 0>> >>

\* whether JSON.stringify returns for a value a handler returned
CanStringify(value) == \A i \in 1..Len(value) : Len(value[i]) <= 1

\* whether JSON.stringify(data) returns for a message of the push channel:
\* it throws for a tool_result that carries an ExecutionResult whose result
\* cannot be serialised
Serialisable(data) ==
  ~ /\ data.method = "notifications/tool_result"
    /\ IsSome(data.result)
    /\ "success" \in DOMAIN Get(data.result)
    /\ IsSome(Get(data.result).result)
    /\ ~CanStringify(Get(Get(data.result).result))

\* sendSSEMessage: a write to a client of the table that is not destroyed
\* restarts the client's idle clock; when JSON.stringify or the write
\* throws, the client is removed
sendSSEMessage(clients, i, data) ==
  IF clients[i].destroyed THEN clients
  ELSE IF ~Serialisable(data) \/ clients[i].writeFails
       THEN [clients EXCEPT ![i] = delete(@)]
       ELSE [clients EXCEPT ![i].received = Write(@, data),
                            ![i].idle = 0]

\* a broadcast that gives up at the first client whose write throws
RECURSIVE broadcastFromUntilFailure(_, _, _)
broadcastFromUntilFailure(clients, i, data) ==
  IF i > Len(clients) THEN clients
  ELSE IF ~clients[i].removed /\ ~clients[i].destroyed
          /\ clients[i].writeFails
       THEN sendSSEMessage(clients, i, data)
       ELSE broadcastFromUntilFailure(IF clients[i].removed THEN clients
                                      ELSE sendSSEMessage(clients, i, data),
                                      i + 1, data)

\* broadcastSSEMessage: sendSSEMessage for every key of the client table
RECURSIVE broadcastFrom(_, _, _)
broadcastFrom(clients, i, data) ==
  IF i > Len(clients) THEN clients
  ELSE broadcastFrom(IF clients[i].removed THEN clients
                     ELSE sendSSEMessage(clients, i, data),
                     i + 1, data)

broadcastSSEMessage(clients, data) == broadcastFrom(clients, 1, data)

\* the notification POST /mcp/jsonrpc broadcasts after a tools/call
ToolResultNotification(message, response) ==
  [method |-> "notifications/tool_result",
   toolName |-> IF IsSome(message.params) THEN Get(message.params).name
                ELSE None,
   arguments |-> IF IsSome(message.params) THEN Get(message.params).arguments
                 ELSE None,
   result |-> response.result]

\* a route that broadcasts only the calls that were answered with a result
AfterHandleOnResult(clients, message, response) ==
  IF message.method = "tools/call" /\ IsSome(response.result)
  THEN broadcastSSEMessage(clients, ToolResultNotification(message, response))
  ELSE clients

\* the part of POST /mcp/jsonrpc after handleMCPRequest has returned
AfterHandle(clients, message, response) ==
  IF message.method = "tools/call"
  THEN broadcastSSEMessage(clients, ToolResultNotification(message, response))
  ELSE clients

\* generateMCPConfig(tools) for the default host and port
generateMCPConfig(tools) ==
  [name |-> "mcp-sandbox",
   version |-> "1.0.0",
   description |-> "Dynamically generated MCP server from JavaScript module",
   tools |-> ToolViews(tools),
   capabilities |-> [tools |-> TRUE, sampling |-> FALSE, logging |-> TRUE],
   endpoints |-> [tools |-> "http://localhost:3000/mcp/tools",
                  execute |-> "http://localhost:3000/mcp/execute",
                  sse |-> "http://localhost:3000/sse",
                  jsonrpc |-> "http://localhost:3000/mcp/jsonrpc"]]

----------------------------------------------------------------------------
(* State *)

NoMessage == [id |-> None, method |-> "", params |-> None]

\* a slot holds a request whose executeTool call waits for its handler
FreeSlot == [state |-> "free", message |-> NoMessage, call |-> NoCall,
             responses |-> 0]

Slots == 1..MaxInFlight

\* the exchange completed last: the request, its executeTool call if one
\* was made, the response written by res.json and the number of responses
\* written for the request
NoExchange == [message |-> NoMessage, call |-> NoCall, response |-> None,
               responses |-> 0]

Exchange(slot, call, response) ==
  [message |-> slot.message, call |-> call, response |-> Some(response),
   responses |-> slot.responses + 1]

\* the outcome of the last call of a method of MCPSandbox: the error it
\* threw or the value it returned
NoApi == [op |-> "", error |-> None, value |-> None]

ApiError(op, text) == [op |-> op, error |-> Some(text), value |-> None]

ApiValue(op, value) == [op |-> op, error |-> None, value |-> Some(value)]

\* the guard of saveConfig, start and executeTool of MCPSandbox
NoModuleMessage == "No module loaded. Call loadModule() first."

\* options.timeout || 5000
ServerTimeout(opts) ==
  IF IsSome(opts.timeout) /\ Get(opts.timeout) # 0 THEN Get(opts.timeout)
  ELSE ServerDefaultTimeout

\* new ModuleReflector(options.timeout): the parameter defaults to 5000
ReflectorTimeout(opts) ==
  IF IsSome(opts.timeout) THEN Get(opts.timeout) ELSE ReflectorDefaultTimeout

\* new MCPSandbox(opts): no executor is bound, nothing listens
Constructed(opts) ==
  /\ options = opts
  /\ serverOptions = [timeout |-> ServerTimeout(opts)]
  /\ reflectorTimeout = ReflectorTimeout(opts)
  /\ executor = None
  /\ listening = FALSE
  /\ sseClients = <<>>
  /\ slots = [s \in Slots |-> FreeSlot]
  /\ last = NoExchange
  /\ pingIntervals = 0
  /\ sweepsDue = 0
  /\ stopped = FALSE
  /\ api = NoApi

\* new MCPSandbox()
Init == Constructed([timeout |-> None])

\* new MCPSandbox(options), with and without a timeout option
InitOptions == \E opts \in [timeout : OptionTimeouts] : Constructed(opts)

----------------------------------------------------------------------------
(* Time *)

Horizon == MaxTicks * Quantum

\* every running clock can advance by d
CanAdvance(d) ==
  \A s \in Slots :
    slots[s].state = "waiting" => Get(slots[s].call.clock) + d <= Horizon

\* d milliseconds pass: every running clock advances
Advance(sl, d) ==
  [s \in Slots |->
     IF sl[s].state = "waiting"
     THEN [sl[s] EXCEPT !.call.clock = Some(Get(@) + d)]
     ELSE sl[s]]

----------------------------------------------------------------------------
(* Operations *)

\* a loadModule that binds an executor without tools when reflectModule
\* throws
loadModuleBindsOnFailure(file) ==
  /\ ~stopped
  /\ pingIntervals < MaxLoads
  /\ LET reflected == reflectModule(file, reflectorTimeout)
         tools == Get(reflected.value).tools
         context == Get(reflected.value).context
     IN  IF IsSome(reflected.error)
         THEN /\ api' = ApiError("loadModule", Get(reflected.error))
              /\ executor' = Some(NewToolExecutor([bindings |-> <<>>], None))
              /\ pingIntervals' = pingIntervals + 1
         ELSE /\ executor' = Some([NewToolExecutor(context, None) EXCEPT
                                     !.tools = addTools(<<>>, tools)])
              /\ pingIntervals' = pingIntervals + 1
              /\ api' = ApiValue("loadModule", generateMCPConfig(tools))
  /\ UNCHANGED <<options, serverOptions, reflectorTimeout, listening,
                 sseClients, slots, last, sweepsDue, stopped>>

\* MCPSandbox.loadModule: when reflectModule throws, so does loadModule and
\* nothing else happens.  Otherwise a new ToolExecutor over the reflected
\* context is filled with the reflected tools and bound to the server;
\* setExecutor starts one more staleness sweep each time; the configuration
\* document is generated from the reflected tools and returned
loadModule(file) ==
  /\ ~stopped
  /\ pingIntervals < MaxLoads
  /\ LET reflected == reflectModule(file, reflectorTimeout)
         tools == Get(reflected.value).tools
         context == Get(reflected.value).context
     IN  IF IsSome(reflected.error)
         THEN /\ api' = ApiError("loadModule", Get(reflected.error))
              /\ UNCHANGED <<executor, pingIntervals>>
         ELSE /\ executor' = Some([NewToolExecutor(context, None) EXCEPT
                                     !.tools = addTools(<<>>, tools)])
              /\ pingIntervals' = pingIntervals + 1
              /\ api' = ApiValue("loadModule", generateMCPConfig(tools))
  /\ UNCHANGED <<options, serverOptions, reflectorTimeout, listening,
                 sseClients, slots, last, sweepsDue, stopped>>

\* a start that does not look whether an executor is bound
startUnchecked ==
  /\ ~listening
  /\ ~stopped
  /\ listening' = TRUE
  /\ api' = ApiValue("start", [listening |-> TRUE])
  /\ UNCHANGED <<options, serverOptions, reflectorTimeout, executor,
                 sseClients, slots, last, pingIntervals, sweepsDue, stopped>>

\* MCPSandbox.start: refused while no executor is bound, else the server
\* listens
start ==
  /\ ~listening
  /\ ~stopped
  /\ IF IsSome(executor)
     THEN /\ listening' = TRUE
          /\ api' = ApiValue("start", [listening |-> TRUE])
     ELSE /\ api' = ApiError("start", NoModuleMessage)
          /\ UNCHANGED listening
  /\ UNCHANGED <<options, serverOptions, reflectorTimeout, executor,
                 sseClients, slots, last, pingIntervals, sweepsDue, stopped>>

\* MCPSandbox.saveConfig: refused while no executor is bound, else the
\* configuration document of the registered tools is written to the default
\* path, which is returned
saveConfig ==
  /\ api' = IF IsSome(executor)
            THEN ApiValue("saveConfig",
                          [path |-> "mcp-config.json",
                           config |-> generateMCPConfig(
                                        getTools(Get(executor)))])
            ELSE ApiError("saveConfig", NoModuleMessage)
  /\ UNCHANGED <<options, serverOptions, reflectorTimeout, executor,
                 listening, sseClients, slots, last, pingIntervals,
                 sweepsDue, stopped>>

\* MCPSandbox.executeTool with a handler that returns or throws: refused
\* while no executor is bound, else the outcome of ToolExecutor.executeTool
sandboxExecuteTool(toolName, args, beh) ==
  /\ beh.kind \in {"", "return", "throw"}
  /\ api' = IF IsSome(executor)
            THEN LET call == executeTool(Get(executor), toolName, args, beh)
                 IN  IF call.phase = "rejected"
                     THEN ApiError("executeTool", Get(call.rejection))
                     ELSE ApiValue("executeTool", Get(call.result))
            ELSE ApiError("executeTool", NoModuleMessage)
  /\ UNCHANGED <<options, serverOptions, reflectorTimeout, executor,
                 listening, sseClients, slots, last, pingIntervals,
                 sweepsDue, stopped>>

\* GET /mcp-config: the configuration document of the registered tools
McpConfigRequest ==
  /\ listening
  /\ last' = [message |-> [id |-> None, method |-> "GET /mcp-config",
                           params |-> None],
              call |-> NoCall,
              response |-> Some(generateMCPConfig(getTools(Get(executor)))),
              responses |-> 1]
  /\ UNCHANGED <<options, serverOptions, reflectorTimeout, executor,
                 listening, sseClients, slots, pingIntervals, sweepsDue,
                 stopped, api>>

\* the handlers behind POST /execute/:toolName: they return at once, the
\* values they were given or an object that refers to itself
ExecuteBehaviours ==
  { [kind |-> "return", busy |-> 0, thrown |-> None, returns |-> r] :
      r \in {"values", "circular"} }

\* POST /execute/:toolName for a handler that returns at once:
\* executeTool, the broadcast of its ExecutionResult, and the response.  An
\* unknown tool makes executeTool throw, and a result that cannot be
\* serialised makes res.json throw: the catch clause answers with status
\* 500 and the error's message, of which the first line is kept.
ExecuteRequest(toolName, args, beh) ==
  /\ listening
  /\ \A s \in Slots : slots[s].state = "free"
  /\ LET made == executeTool(Get(executor), toolName, args, beh)
         call == IF made.invoked /\ beh.kind = "return"
                    /\ beh.returns = "circular"
                 THEN [made EXCEPT !.result =
                         Some(SuccessResult(toolName, Circular, beh.busy))]
                 ELSE made
         message == [id |-> None, method |-> "POST /execute/:toolName",
                     params |-> Some([name |-> Some(toolName),
                                      arguments |-> Some(args)])]
         Failed(text) == [status |-> 500,
                          body |-> [success |-> FALSE, error |-> Some(text),
                                    toolName |-> toolName]]
     IN  IF call.phase = "rejected"
         THEN /\ last' = [message |-> message, call |-> call,
                          response |-> Some(Failed(Get(call.rejection))),
                          responses |-> 1]
              /\ UNCHANGED sseClients
         ELSE /\ sseClients' =
                   broadcastSSEMessage(sseClients,
                     [method |-> "notifications/tool_result",
                      toolName |-> Some(toolName),
                      arguments |-> Some(args),
                      result |-> call.result])
              /\ last' =
                   [message |-> message, call |-> call,
                    response |->
                      Some(IF Serialisable([method |->
                                              "notifications/tool_result",
                                            result |-> call.result])
                           THEN [status |-> 200, body |-> Get(call.result)]
                           ELSE Failed(
                                  "Converting circular structure to JSON")),
                    responses |-> 1]
  /\ UNCHANGED <<options, serverOptions, reflectorTimeout, executor,
                 listening, slots, pingIntervals, sweepsDue, stopped, api>>

\* POST /mcp/jsonrpc up to its response, or up to the point where
\* executeTool waits for the handler's promise.  handleMCPRequest catches
\* every error of its switch and sendSSEMessage every error of a write, so
\* the route's own catch clause, which would answer with status 500, is not
\* reached.
JsonRpcRequest(s, message, beh) ==
  /\ listening
  /\ slots[s].state = "free"
  /\ \A r \in Slots : r < s => slots[r].state # "free"
  /\ IF CallsExecutor(message)
     THEN LET call == executeTool(Get(executor), CallName(message),
                                  CallArguments(message), beh)
              busy == IF call.invoked THEN beh.busy ELSE 0
              arrived == [FreeSlot EXCEPT !.message = message]
          IN  /\ CanAdvance(busy)
              /\ IF call.phase = "pending"
                 THEN /\ slots' = [Advance(slots, busy) EXCEPT ![s] =
                            [arrived EXCEPT !.state = "waiting",
                                            !.call = call]]
                      /\ UNCHANGED <<sseClients, last>>
                 ELSE LET response == ToolCallResponse(message, call)
                      IN  /\ sseClients' =
                                AfterHandle(sseClients, message, response)
                          /\ last' = Exchange(arrived, call, response)
                          /\ slots' = Advance(slots, busy)
     ELSE LET response == handleMCPRequest(message, Get(executor))
          IN  /\ sseClients' = AfterHandle(sseClients, message, response)
              /\ last' = Exchange([FreeSlot EXCEPT !.message = message],
                                  NoCall, response)
              /\ UNCHANGED slots
  /\ UNCHANGED <<options, serverOptions, reflectorTimeout, executor,
                 listening, pingIntervals, sweepsDue, stopped, api>>

\* a completion that builds its result from the call that started last, as
\* if the variables of a call were fields of the executor
HandlerSettlesLatestCall(s, outcome) ==
  /\ slots[s].state = "waiting"
  /\ slots[s].call.kind = "async"
  /\ LET latest == CHOOSE t \in Slots :
                      /\ slots[t].state = "waiting"
                      /\ \A u \in Slots :
                           slots[u].state = "waiting" =>
                             /\ Get(slots[t].call.clock)
                                  <= Get(slots[u].call.clock)
                             /\ (Get(slots[t].call.clock)
                                   = Get(slots[u].call.clock) => t >= u)
         call == settle(slots[latest].call, outcome)
         response == ToolCallResponse(slots[s].message, call)
     IN  /\ sseClients' = AfterHandle(sseClients, slots[s].message, response)
         /\ last' = Exchange(slots[s], call, response)
         /\ slots' = [slots EXCEPT ![s] = FreeSlot]
  /\ UNCHANGED <<options, serverOptions, reflectorTimeout, executor,
                 listening, pingIntervals, sweepsDue, stopped, api>>

\* the promise a handler returned settles: executeTool builds its result,
\* handleMCPRequest its response, and the route broadcasts and responds
HandlerSettles(s, outcome) ==
  /\ slots[s].state = "waiting"
  /\ slots[s].call.kind = "async"
  /\ LET call == settle(slots[s].call, outcome)
         response == ToolCallResponse(slots[s].message, call)
     IN  /\ sseClients' = AfterHandle(sseClients, slots[s].message, response)
         /\ last' = Exchange(slots[s], call, response)
         /\ slots' = [slots EXCEPT ![s] = FreeSlot]
  /\ UNCHANGED <<options, serverOptions, reflectorTimeout, executor,
                 listening, pingIntervals, sweepsDue, stopped, api>>

\* a quantum of time passes while some call waits for its handler
Tick ==
  /\ \E s \in Slots : slots[s].state = "waiting"
  /\ CanAdvance(Quantum)
  /\ slots' = Advance(slots, Quantum)
  /\ UNCHANGED <<options, serverOptions, reflectorTimeout, executor,
                 listening, sseClients, last, pingIntervals, sweepsDue,
                 stopped, api>>

----------------------------------------------------------------------------
(* MCPServer: the push channel and the maintenance timers *)

\* the comment line GET /sse writes before the client is added to the table
Connected == [method |-> ": connected"]

\* the comment line of the heartbeat interval
HeartbeatLine == [method |-> ": heartbeat"]

\* the message of the first handshake timer
InitializedNotification ==
  [method |-> "notifications/initialized",
   protocolVersion |-> "2024-11-05",
   serverInfo |-> [name |-> "mcp-sandbox", version |-> "1.0.0"]]

\* the message of the second handshake timer
ToolsChangedNotification(ex) ==
  [method |-> "notifications/tools_changed", tools |-> ToolViews(getTools(ex))]

\* a connection whose first handshake timer is the one of tools_changed
NewClientSecondTimerFirst ==
  [removed |-> FALSE, destroyed |-> FALSE, writeFails |-> FALSE, ended |-> 0,
   idle |-> 0, received |-> <<Connected>>,
   timer |-> "tools_changed", heartbeat |-> TRUE, heartbeatDue |-> FALSE]

\* a connection accepted by GET /sse.  `removed` says that its entry has
\* been deleted from sseClients; `destroyed` is response.destroyed;
\* `writeFails` says that response.write throws; `ended` counts the calls of
\* response.end(); `idle` is Date.now() - lastPing; `received` lists the
\* lines written; `timer` is the handshake timer that is scheduled;
\* `heartbeat` says that the heartbeat interval of the connection is
\* scheduled and `heartbeatDue` that its period has elapsed.
NewClient ==
  [removed |-> FALSE, destroyed |-> FALSE, writeFails |-> FALSE, ended |-> 0,
   idle |-> 0, received |-> <<Connected>>,
   timer |-> "initialized", heartbeat |-> TRUE, heartbeatDue |-> FALSE]

Clients == 1..Len(sseClients)

\* sseClients.has(clientId)
Has(clients, i) == ~clients[i].removed

\* GET /health
health(ex, clients) ==
  [status |-> "healthy",
   tools |-> [i \in 1..Len(getTools(ex)) |-> getTools(ex)[i].name],
   clients |-> Cardinality({i \in 1..Len(clients) : Has(clients, i)})]

\* GET /sse: the acknowledgment, the entry of the table, the first handshake
\* timer and the heartbeat interval
Connect ==
  /\ listening
  /\ Len(sseClients) < MaxClients
  /\ sseClients' = Append(sseClients, NewClient)
  /\ UNCHANGED <<options, serverOptions, reflectorTimeout, executor,
                 listening, slots, last, pingIntervals, sweepsDue, stopped,
                 api>>

\* the callback of the first handshake timer (50 ms): the second timer is
\* set whenever the client was in the table when the callback began
InitializedTimer(i) ==
  /\ sseClients[i].timer = "initialized"
  /\ sseClients' =
       IF Has(sseClients, i)
       THEN [sendSSEMessage(sseClients, i, InitializedNotification)
               EXCEPT ![i].timer = "tools_changed"]
       ELSE [sseClients EXCEPT ![i].timer = "none"]
  /\ UNCHANGED <<options, serverOptions, reflectorTimeout, executor,
                 listening, slots, last, pingIntervals, sweepsDue, stopped,
                 api>>

\* the callback of the second handshake timer (100 ms)
ToolsChangedTimer(i) ==
  /\ sseClients[i].timer = "tools_changed"
  /\ sseClients' =
       [(IF Has(sseClients, i)
         THEN sendSSEMessage(sseClients, i,
                             ToolsChangedNotification(Get(executor)))
         ELSE sseClients)
          EXCEPT ![i].timer = "none"]
  /\ UNCHANGED <<options, serverOptions, reflectorTimeout, executor,
                 listening, slots, last, pingIntervals, sweepsDue, stopped,
                 api>>

\* the transport of a client starts to throw on write
TransportBreaks(i) ==
  /\ Has(sseClients, i)
  /\ ~sseClients[i].destroyed
  /\ ~sseClients[i].writeFails
  /\ sseClients' = [sseClients EXCEPT ![i].writeFails = TRUE]
  /\ UNCHANGED <<options, serverOptions, reflectorTimeout, executor,
                 listening, slots, last, pingIntervals, sweepsDue, stopped,
                 api>>

\* the socket of a client goes away: response.destroyed becomes true.  A
\* transport either breaks or is destroyed.
TransportDestroyed(i) ==
  /\ Has(sseClients, i)
  /\ ~sseClients[i].destroyed
  /\ ~sseClients[i].writeFails
  /\ sseClients' = [sseClients EXCEPT ![i].destroyed = TRUE]
  /\ UNCHANGED <<options, serverOptions, reflectorTimeout, executor,
                 listening, slots, last, pingIntervals, sweepsDue, stopped,
                 api>>

\* req.on('close') and req.on('error'): the entry is deleted
RequestClose(i) ==
  /\ Has(sseClients, i)
  /\ sseClients[i].destroyed
  /\ sseClients' = [sseClients EXCEPT ![i] = delete(@)]
  /\ UNCHANGED <<options, serverOptions, reflectorTimeout, executor,
                 listening, slots, last, pingIntervals, sweepsDue, stopped,
                 api>>

\* a heartbeat callback that writes to a client that has left the table
heartbeatTickUnchecked(client) ==
  IF client.writeFails THEN [delete(client) EXCEPT !.heartbeat = FALSE]
  ELSE [client EXCEPT !.received = Write(@, HeartbeatLine)]

\* the callback of the heartbeat interval of a connection: the line is
\* written without touching lastPing; the interval is cleared when the write
\* throws, when the client has left the table and when its response is
\* destroyed
heartbeatTick(client) ==
  IF ~client.removed /\ ~client.destroyed
  THEN IF client.writeFails
       THEN [delete(client) EXCEPT !.heartbeat = FALSE]
       ELSE [client EXCEPT !.received = Write(@, HeartbeatLine)]
  ELSE [client EXCEPT !.heartbeat = FALSE]

Heartbeat(i) ==
  /\ sseClients[i].heartbeatDue
  /\ sseClients' = [sseClients EXCEPT
                      ![i] = [heartbeatTick(@) EXCEPT !.heartbeatDue = FALSE]]
  /\ UNCHANGED <<options, serverOptions, reflectorTimeout, executor,
                 listening, slots, last, pingIntervals, sweepsDue, stopped,
                 api>>

\* client.response.end() followed by the deletion of the entry
endAndDelete(client) == [delete(client) EXCEPT !.ended = @ + 1]

\* a sweep that ends the stale clients and leaves them in the table
sweepEndsOnly(clients) ==
  [i \in 1..Len(clients) |->
     IF Has(clients, i) /\ clients[i].idle > StaleAfter
     THEN [clients[i] EXCEPT !.ended = @ + 1] ELSE clients[i]]

\* the callback of startPingInterval: every client of the table whose last
\* activity is older than the threshold is ended and deleted
sweep(clients) ==
  [i \in 1..Len(clients) |->
     IF Has(clients, i) /\ clients[i].idle > StaleAfter
     THEN endAndDelete(clients[i]) ELSE clients[i]]

Sweep ==
  /\ sweepsDue > 0
  /\ sweepsDue' = sweepsDue - 1
  /\ sseClients' = sweep(sseClients)
  /\ UNCHANGED <<options, serverOptions, reflectorTimeout, executor,
                 listening, slots, last, pingIntervals, stopped, api>>

\* a close handler that ends the clients and leaves the table as it is
endAllKeepTable(clients) ==
  [i \in 1..Len(clients) |->
     IF Has(clients, i) THEN [clients[i] EXCEPT !.ended = @ + 1]
     ELSE clients[i]]

\* the loop of the listener's close handler followed by sseClients.clear()
endAll(clients) ==
  [i \in 1..Len(clients) |->
     IF Has(clients, i) THEN endAndDelete(clients[i]) ELSE clients[i]]

\* the close event of the listener: clearInterval(this.pingInterval) cancels
\* the sweep that the last setExecutor started, which is the last one to run
\* in a period
Close ==
  /\ listening
  /\ listening' = FALSE
  /\ stopped' = TRUE
  /\ pingIntervals' = pingIntervals - 1
  /\ sweepsDue' = IF sweepsDue > 0 THEN sweepsDue - 1 ELSE 0
  /\ sseClients' = endAll(sseClients)
  /\ UNCHANGED <<options, serverOptions, reflectorTimeout, executor, slots,
                 last, api>>

\* a period of the maintenance timers passes: every interval becomes due.
\* The handshake timers are shorter than a period and the callbacks of a
\* period run before the next period ends.
PushTick ==
  /\ pingIntervals > 0 \/ \E i \in Clients : sseClients[i].heartbeat
  /\ sweepsDue = 0
  /\ \A i \in Clients : /\ sseClients[i].timer = "none"
                        /\ ~sseClients[i].heartbeatDue
  /\ \A s \in Slots : slots[s].state = "free"
  /\ sweepsDue' = pingIntervals
  /\ sseClients' =
       [i \in Clients |->
          [sseClients[i] EXCEPT
             !.idle = IF Has(sseClients, i) /\ @ <= StaleAfter
                      THEN @ + SweepInterval ELSE @,
             !.heartbeatDue = sseClients[i].heartbeat]]
  /\ UNCHANGED <<options, serverOptions, reflectorTimeout, executor,
                 listening, slots, last, pingIntervals, stopped, api>>

NoBehaviour == [kind |-> "", busy |-> 0, thrown |-> None]

\* whether the request reaches a handler of the registry
Invokes(message) ==
  /\ CallsExecutor(message)
  /\ IsSome(executor)
  /\ IsSome(getTool(Get(executor), CallName(message)))

Outcomes == {None} \cup {Some(t) : t \in Thrown}

\* the handlers whose promise settles at some time
SettlingBehaviours == {beh \in HandlerBehaviours : beh.kind # "never"}

\* clients of the request/response channel, with requests in flight side by
\* side
Next ==
  \/ (executor = None /\ loadModule(ExampleModule))
  \/ start
  \/ \E s \in Slots, message \in MCPMessages :
       \E beh \in (IF Invokes(message) THEN SettlingBehaviours
                    ELSE {NoBehaviour}) :
         JsonRpcRequest(s, message, beh)
  \/ \E s \in Slots, outcome \in Outcomes : HandlerSettles(s, outcome)
  \/ Tick

Spec == Init /\ [][Next]_vars

\* one client that calls tools one after the other, with every argument bag
\* and every handler behaviour
NextExec ==
  \/ (executor = None /\ loadModule(ExampleModule))
  \/ start
  \/ \E message \in ExecMessages :
       \E beh \in (IF Invokes(message) THEN SlowHandlerBehaviours
                    ELSE {NoBehaviour}) :
         JsonRpcRequest(1, message, beh)
  \/ \E outcome \in Outcomes : HandlerSettles(1, outcome)
  \/ Tick

SpecExec == InitOptions /\ [][NextExec]_vars

\* the requests of the clients of the push channel
PushMessages ==
  { [id |-> Some(7), method |-> "tools/list", params |-> None] }
  \cup { [id |-> Some(7), method |-> "tools/call",
          params |-> Some([name |-> Some(n), arguments |-> None])] :
           n \in {"pair", "nosuch"} }

PushBehaviours == { [kind |-> "async", busy |-> 0, thrown |-> None] }

\* push clients that connect, break and disconnect while one client of the
\* request/response channel sends its requests
NextPush ==
  \/ (executor = None /\ loadModule(ExampleModule))
  \/ start
  \/ \E message \in PushMessages :
       \E beh \in (IF Invokes(message) THEN PushBehaviours
                    ELSE {NoBehaviour}) :
         JsonRpcRequest(1, message, beh)
  \/ \E outcome \in {None} : HandlerSettles(1, outcome)
  \/ Connect
  \/ \E i \in Clients : InitializedTimer(i)
  \/ \E i \in Clients : ToolsChangedTimer(i)
  \/ \E i \in Clients : TransportBreaks(i)
  \/ \E i \in Clients : TransportDestroyed(i)
  \/ \E i \in Clients : RequestClose(i)

SpecPush == Init /\ [][NextPush]_vars

\* modules are loaded and the server started; push clients connect, break
\* and disconnect while the maintenance timers run and the listener closes
NextMaint ==
  \/ (~listening /\ loadModule(ExampleModule))
  \/ start
  \/ Connect
  \/ \E i \in Clients : InitializedTimer(i)
  \/ \E i \in Clients : ToolsChangedTimer(i)
  \/ \E i \in Clients : TransportBreaks(i)
  \/ \E i \in Clients : TransportDestroyed(i)
  \/ \E i \in Clients : RequestClose(i)
  \/ \E i \in Clients : Heartbeat(i)
  \/ Sweep
  \/ PushTick
  \/ Close

SpecMaint == Init /\ [][NextMaint]_vars

\* the requests of the runs of the session object
ApiMessages ==
  { [id |-> Some(7), method |-> m, params |-> None] :
      m \in {"ping", "tools/list", "bogus"} }

\* a program that calls the methods of the session object in any order,
\* before and after a module is loaded, while a client sends requests
NextApi ==
  \/ loadModule(ExampleModule)
  \/ start
  \/ saveConfig
  \/ \E toolName \in RequestedNames, args \in ArgBags :
       \E beh \in (IF IsSome(executor)
                       /\ IsSome(getTool(Get(executor), toolName))
                    THEN {b \in HandlerBehaviours :
                            b.kind \in {"return", "throw"}}
                    ELSE {NoBehaviour}) :
         sandboxExecuteTool(toolName, args, beh)
  \/ \E message \in ApiMessages : JsonRpcRequest(1, message, NoBehaviour)

SpecApi == InitOptions /\ [][NextApi]_vars

\* calls of the tool pair, one for every argument bag
PairMessages ==
  { [id |-> Some(7), method |-> "tools/call",
     params |-> Some([name |-> Some("pair"), arguments |-> Some(bag)])] :
      bag \in ArgBags }

\* clients that call the same tool side by side; the handler returns a
\* promise, and the calls interleave where they wait for it
NextConcurrent ==
  \/ (executor = None /\ loadModule(ExampleModule))
  \/ start
  \/ \E s \in Slots, message \in PairMessages :
       JsonRpcRequest(s, message, [kind |-> "async", busy |-> 0,
                                   thrown |-> None])
  \/ \E s \in Slots, outcome \in Outcomes : HandlerSettles(s, outcome)
  \/ Tick

SpecConcurrent == Init /\ [][NextConcurrent]_vars

\* the requests of the runs that load modules: the list of tools, and a
\* call of the name the colliding modules register twice
ReflectMessages ==
  { [id |-> Some(7), method |-> "tools/list", params |-> None],
    [id |-> Some(7), method |-> "tools/call",
     params |-> Some([name |-> Some("a_b"),
                      arguments |-> Some(<< <<"a", ArgValue("a")>>,
                                            <<"b", ArgValue("b")>> >>)])] }

\* a program that loads module files of every kind, one after the other,
\* and starts the server, while a client asks for the tools, calls one and
\* fetches the configuration document
NextReflect ==
  \/ \E file \in ModuleFiles : loadModule(file)
  \/ start
  \/ saveConfig
  \/ \E message \in ReflectMessages :
       \E beh \in (IF Invokes(message)
                    THEN {b \in HandlerBehaviours : b.kind = "return"}
                    ELSE {NoBehaviour}) :
         JsonRpcRequest(1, message, beh)
  \/ McpConfigRequest

SpecReflect == InitOptions /\ [][NextReflect]_vars

\* the arguments of the requests of POST /execute/:toolName
ExecuteBags == { << <<"a", ArgValue("a")>> >> }

\* a module is loaded and the server started; push clients connect, break
\* and disconnect while the maintenance timers run, a client of the execute
\* route calls tools, and the listener closes
NextNotify ==
  \/ (executor = None /\ loadModule(ExampleModule))
  \/ start
  \/ (Len(sseClients) < MaxWatchers /\ Connect)
  \/ \E i \in Clients : InitializedTimer(i)
  \/ \E i \in Clients : ToolsChangedTimer(i)
  \/ \E i \in Clients : TransportBreaks(i)
  \/ \E i \in Clients : TransportDestroyed(i)
  \/ \E i \in Clients : RequestClose(i)
  \/ \E i \in Clients : Heartbeat(i)
  \/ Sweep
  \/ PushTick
  \/ Close
  \/ \E toolName \in {"pair", "nosuch"}, args \in ExecuteBags,
        beh \in ExecuteBehaviours :
       ExecuteRequest(toolName, args, beh)

SpecNotify == Init /\ [][NextNotify]_vars

\* the event loop runs the continuation of every promise that settles, and
\* time passes
Fairness ==
  /\ WF_vars(Tick)
  /\ \A s \in Slots : WF_vars(\E outcome \in Outcomes : HandlerSettles(s, outcome))

\* the same clients, and handlers whose promise never settles
NextFair ==
  \/ Next
  \/ \E s \in Slots, message \in MCPMessages :
       /\ Invokes(message)
       /\ JsonRpcRequest(s, message,
                         [kind |-> "never", busy |-> 0, thrown |-> None])

FairSpec == Init /\ [][NextFair]_vars /\ Fairness

----------------------------------------------------------------------------
(* Properties *)

Completed == IsSome(last.response)
Executed == last.call.invoked /\ IsSome(last.call.result)
LastResult == Get(last.call.result)
LastResponse == Get(last.response)

\* the value an argument bag holds for a key
BagValue(args, k) ==
  IF \E i \in 1..Len(args) : args[i][1] = k
  THEN Some(args[CHOOSE i \in 1..Len(args) : args[i][1] = k][2])
  ELSE None

RegisteredNames == { ReflectedTools[i].name : i \in 1..Len(ReflectedTools) }

\* C1: a call whose handler returned a promise that is still unsettled when
\* the timer's delay has elapsed ends with success=false and the error
\* "Execution timeout": no call keeps waiting past its deadline, and a call
\* whose handler settled past the deadline has the timeout result.
C1_LateHandlerTimesOut ==
  /\ \A s \in Slots :
       slots[s].state = "waiting" =>
         Get(slots[s].call.clock) <= Get(slots[s].call.timerDelay)
  /\ (Executed /\ last.call.kind = "async"
        /\ LastResult.executionTime > Get(last.call.timerDelay))
       => (~LastResult.success
           /\ LastResult.error = Some("Execution timeout"))

\* C2: every request that waits for its tool is eventually answered, also
\* when the handler's promise never settles.
C2_EveryRequestAnswered ==
  \A s \in Slots : (slots[s].state = "waiting") ~> (slots[s].state = "free")

\* a request whose handler's promise never settles is not answered by any
\* step: the timer of its call was cleared when the handler returned
NeverSettlingCallStaysInFlight ==
  [][\A s \in Slots :
       (slots[s].state = "waiting" /\ slots[s].call.kind = "never")
         => (slots'[s].state = "waiting" /\ slots'[s].call.timerCleared)]_vars

\* C3: a request gets at most one response, and the response, result or
\* error, carries the id of its request.
C3_OneResponseWithRequestId ==
  /\ last.responses <= 1
  /\ \A s \in Slots : slots[s].responses = 0
  /\ Completed =>
       /\ LastResponse.id = last.message.id
       /\ IsSome(LastResponse.result) # IsSome(LastResponse.error)

\* an error response for an unknown tool was sent to a request with an id
\* while a request with another id is in flight
C3_Witness ==
  /\ Completed
  /\ last.message.id = Some(7)
  /\ last.call.phase = "rejected"
  /\ IsSome(LastResponse.error)
  /\ \E s \in Slots :
       slots[s].state = "waiting" /\ slots[s].message.id # last.message.id

\* C4: an execution whose handler returned or resolved has success=true,
\* the returned value as result and 0 <= executionTime < timeout.
C4_SuccessWithinTimeout ==
  (Executed /\ ~IsSome(last.call.thrown)) =>
    /\ LastResult.success
    /\ LastResult.result = Some(last.call.received)
    /\ LastResult.executionTime >= 0
    /\ LastResult.executionTime < Get(last.call.timerDelay)

\* C5: when the handler of a registered tool throws or its promise rejects,
\* executeTool resolves with success=false, the thrown message as error,
\* the tool's name and an execution time.
C5_FailureCarriesThrownMessage ==
  (last.call.invoked /\ IsSome(last.call.thrown)) =>
    /\ last.call.phase = "resolved"
    /\ IsSome(last.call.result)
    /\ ~LastResult.success
    /\ LastResult.error = Some(Get(last.call.thrown).text)
    /\ LastResult.toolName = CallName(last.message)
    /\ LastResult.executionTime >= 0

\* C6: executeTool with a name that is not in the registry rejects with the
\* not-found error before a start timestamp is taken, a timer is armed or a
\* handler is invoked; it produces no ExecutionResult and leaves the
\* registry as loadModule built it.
C6_UnknownToolFailsFast ==
  /\ (last.call.phase # "none" /\ last.call.toolName \notin RegisteredNames)
       => /\ last.call.phase = "rejected"
          /\ last.call.rejection = Some(NotFoundMessage(last.call.toolName))
          /\ last.call.clock = None
          /\ last.call.timerDelay = None
          /\ ~last.call.invoked
          /\ last.call.received = <<>>
          /\ last.call.result = None
  /\ IsSome(executor) =>
       { getTools(Get(executor))[i].name :
           i \in 1..Len(getTools(Get(executor))) } = RegisteredNames

C6_Witness ==
  /\ last.call.phase = "rejected"
  /\ last.call.toolName = "nosuch"
  /\ Completed

\* C7: the handler receives, for each declared parameter, the value the
\* argument bag holds under that parameter's name, whatever the order of
\* the bag's keys.
C7_ArgumentsInDeclaredOrder ==
  last.call.invoked =>
    \A i \in 1..Len(HandlerParams(last.call.toolName)) :
      last.call.received[i] =
        BagValue(last.call.args, HandlerParams(last.call.toolName)[i])

\* C8: the timer a tool execution races against is armed with the timeout
\* of the session's options, and with 5000 ms only when none was supplied.
C8_TimerUsesOptionTimeout ==
  last.call.invoked =>
    last.call.timerDelay =
      (IF IsSome(options.timeout) THEN options.timeout ELSE Some(5000))

\* C9, as stated: a failed execution is answered with a protocol error with
\* code -32603 whose message is the tool's error, without a result field;
\* a result with isError=false is sent only for a successful execution.
C9_FailureIsProtocolError ==
  Executed =>
    /\ ~LastResult.success =>
         /\ LastResponse.result = None
         /\ LastResponse.error =
              Some([code |-> -32603, message |-> Get(LastResult.error)])
    /\ IsSome(LastResponse.result) => LastResult.success

\* C9, amended: the message of the protocol error is the tool's error, or
\* "Tool execution failed" when the tool's error is the empty string.
C9_FailureIsProtocolErrorOrDefault ==
  Executed =>
    /\ ~LastResult.success =>
         /\ LastResponse.result = None
         /\ LastResponse.error =
              Some([code |-> -32603,
                    message |-> IF Get(LastResult.error) = ""
                                THEN "Tool execution failed"
                                ELSE Get(LastResult.error)])
    /\ IsSome(LastResponse.result) =>
         (LastResult.success /\ ~Get(LastResponse.result).isError)

\* a handler's promise rejected and the request got the protocol error
C9_Witness ==
  /\ Executed
  /\ last.call.kind = "async"
  /\ ~LastResult.success
  /\ LastResult.error = Some("Error: boom")
  /\ IsSome(LastResponse.error)

\* C10: a tools/call without params.name is answered with the protocol
\* error "Tool name is required" and never reaches the executor.
C10_MissingNameIsFormatError ==
  (Completed /\ last.message.method = "tools/call"
     /\ (~IsSome(last.message.params)
         \/ ~IsSome(Get(last.message.params).name))) =>
    /\ LastResponse.result = None
    /\ LastResponse.error =
         Some([code |-> -32603, message |-> "Tool name is required"])
    /\ last.call = NoCall

C10_Witness ==
  /\ Completed
  /\ last.message.method = "tools/call"
  /\ IsSome(last.message.params)
  /\ ~IsSome(Get(last.message.params).name)
  /\ IsSome(LastResponse.error)


DispatchedMethods ==
  {"initialize", "notifications/initialized", "tools/list", "tools/call",
   "ping"}

\* C11: a request whose method is none of the five dispatched methods is
\* answered with the error -32603 "Unknown method: <method>"; no handler is
\* invoked for it, and the step that answers it changes neither the
\* executor, the client table, the requests in flight nor the timers.
C11_UnknownMethodIsError ==
  [][(last' # last /\ last'.message.method \notin DispatchedMethods) =>
       /\ last'.response =
            Some([id |-> last'.message.id, result |-> None,
                  error |-> Some([code |-> -32603,
                                  message |-> "Unknown method: "
                                                \o last'.message.method])])
       /\ last'.responses = 1
       /\ last'.call = NoCall
       /\ UNCHANGED <<executor, listening, sseClients, slots, pingIntervals,
                      sweepsDue, stopped, api>>]_vars

\* an unknown method was answered by a server whose module was loaded twice
C11_Witness ==
  /\ Completed
  /\ last.message.method = "bogus"
  /\ IsSome(LastResponse.error)
  /\ pingIntervals = 2

\* whether the request names a tool that the registry does not hold
NamesUnknownTool(message) ==
  /\ message.method = "tools/call"
  /\ IsSome(message.params)
  /\ IsSome(Get(message.params).name)
  /\ Get(Get(message.params).name) \notin RegisteredNames \cup {""}

PingMessage == [id |-> None, method |-> "ping", params |-> None]

\* C12: a tools/call that names an unregistered tool is answered with the
\* protocol error that carries the executor's not-found message, without a
\* result; afterwards the server still listens, the executor is still bound
\* and a further request is accepted as soon as a slot is free.
C12_UnknownToolIsProtocolError ==
  (Completed /\ NamesUnknownTool(last.message)) =>
    /\ LastResponse.result = None
    /\ LastResponse.error =
         Some([code |-> -32603,
               message |-> "Tool '" \o Get(Get(last.message.params).name)
                             \o "' not found"])
    /\ LastResponse.id = last.message.id
    /\ ~last.call.invoked
    /\ listening
    /\ IsSome(executor)
    /\ (\E s \in Slots : slots[s].state = "free") =>
         ENABLED (\E s \in Slots : JsonRpcRequest(s, PingMessage, NoBehaviour))

\* the unknown tool was answered with the protocol error
C12_Witness ==
  /\ Completed
  /\ NamesUnknownTool(last.message)
  /\ last.call.phase = "rejected"
  /\ IsSome(LastResponse.error)

\* the names of the reflected tools, in the order of reflection
LoadedNames == [i \in 1..Len(ReflectedTools) |-> ReflectedTools[i].name]

HandshakeMethods ==
  {": connected", "notifications/initialized", "notifications/tools_changed"}

\* the lines of the handshake among the lines written to a client
HandshakeLines(log) ==
  SelectSeq(log, LAMBDA l : l.method \in HandshakeMethods)

\* the three lines of a complete handshake
Handshake ==
  << [method |-> ": connected"],
     [method |-> "notifications/initialized",
      protocolVersion |-> "2024-11-05",
      serverInfo |-> [name |-> "mcp-sandbox", version |-> "1.0.0"]],
     [method |-> "notifications/tools_changed",
      tools |-> [i \in 1..Len(ReflectedTools) |->
                   ToolView(ReflectedTools[i])]] >>

\* whether the client has been connected and writable since it was accepted
StaysConnected(client) ==
  ~client.removed /\ ~client.destroyed /\ ~client.writeFails

\* C14: the handshake lines written to a client of the table are the
\* leading lines of (acknowledgment, initialized, tools_changed with the
\* current tool list), each at most once and in this order; a client that
\* stayed connected until both timers have run has all three; nothing is
\* written to a client once it has left the table.
C14_HandshakeInOrder ==
  \A i \in Clients :
    LET client == sseClients[i]
        lines == HandshakeLines(client.received)
    IN  /\ ~client.removed =>
             /\ Len(lines) <= 3
             /\ lines = SubSeq(Handshake, 1, Len(lines))
        /\ (StaysConnected(client) /\ client.timer = "none") =>
             lines = Handshake
        /\ client.removed => client.received = <<>>

\* a client got its handshake with a tool_result between initialized and
\* tools_changed, and the timers of a client that had left have run
C14_Witness ==
  \E i, j \in Clients :
    /\ StaysConnected(sseClients[i])
    /\ sseClients[i].timer = "none"
    /\ Len(sseClients[i].received) = 4
    /\ sseClients[i].received[3].method = "notifications/tool_result"
    /\ sseClients[j].removed
    /\ sseClients[j].timer = "none"

\* whether the step answers a tools/call
AnswersToolCall ==
  /\ last'.message.method = "tools/call"
  /\ IsSome(last'.response)
  /\ \/ last' # last
     \/ \E s \in Slots : slots[s].state = "waiting" /\ slots'[s].state = "free"

\* the notification of the call that the step answers
AnsweredNotification ==
  [method |-> "notifications/tool_result",
   toolName |-> IF IsSome(last'.message.params)
                THEN Get(last'.message.params).name ELSE None,
   arguments |-> IF IsSome(last'.message.params)
                 THEN Get(last'.message.params).arguments ELSE None,
   result |-> Get(last'.response).result]

IsLastLine(log, line) == log # <<>> /\ log[Len(log)] = line

\* C15: the step that answers a tools/call writes the tool_result
\* notification of that call (tool name, arguments, result) as the latest
\* line of every client that was in the table with an open, writable
\* transport.
C15_ToolResultToEveryOpenClient ==
  [][AnswersToolCall =>
       \A i \in Clients :
         StaysConnected(sseClients[i]) =>
           /\ ~sseClients'[i].removed
           /\ IsLastLine(sseClients'[i].received, AnsweredNotification)
           /\ sseClients'[i].idle = 0]_vars

\* two open clients hold the notification of a call to an unregistered
\* tool, one of them ahead of its initialized message
C15_Witness ==
  /\ Completed
  /\ NamesUnknownTool(last.message)
  /\ \E i, j \in Clients :
       /\ i # j
       /\ StaysConnected(sseClients[i])
       /\ StaysConnected(sseClients[j])
       /\ Len(sseClients[i].received) = 2
       /\ sseClients[i].received[2].method = "notifications/tool_result"
       /\ sseClients[i].received[2].toolName = Some("nosuch")
       /\ IsLastLine(sseClients[j].received, sseClients[i].received[2])

\* C16: in the step that answers a tools/call, a client of the table whose
\* write throws leaves the table, and no other client does: every open
\* client gets the notification and stays, a destroyed client is left as it
\* is, and the request gets its one response.
C16_FailedWriteRemovesOnlyThatClient ==
  [][AnswersToolCall =>
       /\ \A i \in Clients :
            LET before == sseClients[i]
                after == sseClients'[i]
            IN  /\ (Has(sseClients, i) /\ ~before.destroyed
                      /\ before.writeFails) =>
                     (after.removed /\ after.received = <<>>)
                /\ StaysConnected(before) =>
                     /\ ~after.removed
                     /\ IsLastLine(after.received, AnsweredNotification)
                /\ (before.removed \/ before.destroyed) => after = before
       /\ Len(sseClients') = Len(sseClients)
       /\ last'.responses = 1
       /\ Get(last'.response).id = last'.message.id]_vars

\* the first client left the table at a failed write, and the second holds
\* the notification of the answered call
C16_Witness ==
  /\ Completed
  /\ last.message.method = "tools/call"
  /\ Len(sseClients) >= 2
  /\ sseClients[1].removed
  /\ sseClients[1].writeFails
  /\ sseClients[1].ended = 0
  /\ StaysConnected(sseClients[2])
  /\ IsLastLine(sseClients[2].received,
                ToolResultNotification(last.message, LastResponse))

\* whether the step is a run of the staleness sweep
SweepRuns == sweepsDue' = sweepsDue - 1 /\ stopped' = stopped

\* C17: a run of the sweep ends and deletes every client of the table whose
\* last activity is older than 60 s; the number of times a transport has
\* been ended never decreases and never exceeds one, whatever follows.
C17_StaleClientEndedOnce ==
  [][/\ SweepRuns =>
          \A i \in Clients :
            (Has(sseClients, i) /\ sseClients[i].idle > 60000) =>
              /\ sseClients'[i].removed
              /\ sseClients'[i].ended = sseClients[i].ended + 1
     /\ \A i \in Clients : sseClients'[i].ended >= sseClients[i].ended
     /\ \A i \in 1..Len(sseClients') : sseClients'[i].ended <= 1]_vars

\* the first of two sweeps has evicted a connected client that had its
\* handshake and nothing since
C17_Witness ==
  /\ ~stopped
  /\ pingIntervals = 2
  /\ sweepsDue = 1
  /\ \E i \in Clients :
       /\ sseClients[i].removed
       /\ sseClients[i].ended = 1
       /\ ~sseClients[i].destroyed
       /\ ~sseClients[i].writeFails
       /\ sseClients[i].timer = "none"

\* C18: the close event of the listener ends the transport of every client
\* that is in the table, and from then on the table is empty.
C18_StopEndsAndEmptiesTable ==
  [][/\ (stopped' /\ ~stopped) =>
          \A i \in Clients :
            Has(sseClients, i) =>
              /\ sseClients'[i].ended = sseClients[i].ended + 1
              /\ sseClients'[i].removed
     /\ stopped' =>
          /\ \A i \in 1..Len(sseClients') : sseClients'[i].removed
          /\ health(Get(executor'), sseClients').clients = 0]_vars

\* the listener closed while a client waited for its first handshake timer
\* and another one had already disconnected
C18_Witness ==
  /\ stopped
  /\ \E i, j \in Clients :
       /\ sseClients[i].removed
       /\ sseClients[i].ended = 1
       /\ sseClients[i].timer = "initialized"
       /\ sseClients[j].removed
       /\ sseClients[j].ended = 0

\* C19: once the listener has closed, no staleness sweep and no heartbeat
\* interval is scheduled or due.
C19_NoTimerAfterStop ==
  stopped =>
    /\ pingIntervals = 0
    /\ sweepsDue = 0
    /\ \A i \in Clients :
         ~sseClients[i].heartbeat /\ ~sseClients[i].heartbeatDue

GuardedOperations == {"start", "executeTool", "saveConfig"}

LoadErrors(file, timeout) ==
  IF IsSome(file.throws) THEN {Get(file.throws).text}
  ELSE {"ENOENT: no such file or directory", "Unexpected token",
        "Cannot find module",
        "Script execution timed out after " \o ToString(timeout) \o "ms"}

\* reading, parsing or running the file fails, or running it takes longer
\* than the load timeout
LoadFails(file, timeout) ==
  \/ ~file.exists
  \/ ~file.compiles
  \/ IsSome(file.throws)
  \/ file.runs > timeout
  \/ \E i \in 1..Len(file.requires) :
       ~IsSome(sandboxRequire(ModuleDir, file.requires[i]))

\* C21: reflection is all-or-nothing.  When reading, parsing or running the
\* module fails or exceeds the load timeout, loadModule ends with the error
\* "Failed to reflect module: " followed by the underlying message (after
\* "Error: " for an Error of the module's own context) and returns nothing,
\* the executor binding is left as it was, and a session that was
\* Uninitialized has no executor and does not listen.
C21_ReflectionAllOrNothing ==
  [][\A file \in ModuleFiles :
       (LoadFails(file, reflectorTimeout) /\ loadModule(file)) =>
         /\ api'.op = "loadModule"
         /\ api'.value = None
         /\ \E m \in LoadErrors(file, reflectorTimeout) :
              api'.error \in {Some("Failed to reflect module: " \o m),
                              Some("Failed to reflect module: Error: " \o m)}
         /\ executor' = executor
         /\ (executor = None => executor' = None /\ ~listening')]_vars

\* a load has failed with what the module threw, in a session that is still
\* Uninitialized
C21_Witness ==
  /\ executor = None
  /\ ~listening
  /\ api.op = "loadModule"
  /\ IsSome(api.error)
  /\ Get(api.error) = "Failed to reflect module: Error: boom"

\* the discoverable callables of a value: the paths of keys that lead from
\* it to a callable through plain aggregates only; the empty path when the
\* value is itself callable
RECURSIVE CallablePaths(_)
CallablePaths(value) ==
  IF value.type = "function" THEN {<<>>}
  ELSE IF value.type = "object"
  THEN UNION { { <<value.entries[i][1]>> \o path :
                   path \in CallablePaths(value.entries[i][2]) } :
               i \in 1..Len(value.entries) }
  ELSE {}

\* the tool name of a path: its keys joined by underscores
RECURSIVE PathName(_)
PathName(path) ==
  IF path = <<>> THEN "default"
  ELSE IF Len(path) = 1 THEN path[1]
  ELSE path[1] \o "_" \o PathName(Tail(path))

\* the step loads the file and binds an executor
Loads(file) ==
  /\ loadModule(file)
  /\ ~LoadFails(file, reflectorTimeout)
  /\ CallablePaths(file.exports) # {}

\* C22 as stated: for every valid module with at least one exported
\* callable, the registry loadModule builds has exactly as many entries as
\* the export graph has discoverable callables, whatever the nesting and
\* the member keys.
C22_RegistryCountsCallables ==
  [][\A file \in ModuleFiles :
       Loads(file) =>
         Len(getTools(Get(executor'))) =
           Cardinality(CallablePaths(file.exports))]_vars

\* C22 amended: the registry has exactly as many entries as the discoverable
\* callables have distinct tool names, which is the number of discoverable
\* callables when no two paths collapse to the same name.
C22_RegistryCountsNames ==
  [][\A file \in ModuleFiles :
       Loads(file) =>
         LET paths == CallablePaths(file.exports)
             names == {PathName(path) : path \in paths}
         IN  /\ Len(getTools(Get(executor'))) = Cardinality(names)
             /\ {getTools(Get(executor'))[i].name :
                   i \in 1..Len(getTools(Get(executor')))} = names
             /\ Cardinality(names) = Cardinality(paths) =>
                  Len(getTools(Get(executor'))) = Cardinality(paths)]_vars

\* a module with two callables under one name is loaded: reflection found
\* two tools, the registry holds one entry
C22_Witness ==
  /\ IsSome(executor)
  /\ api.op = "loadModule"
  /\ IsSome(api.value)
  /\ Len(Get(api.value).tools) = 2
  /\ Len(getTools(Get(executor))) = 1
  /\ getTools(Get(executor))[1].name = "a_b"

\* the tools of the registry
Registry == IF IsSome(executor) THEN getTools(Get(executor)) ELSE <<>>

\* the keys of the properties of a tool's input schema
PropertyNames(tool) ==
  {tool.properties[i].name : i \in 1..Len(tool.properties)}

\* C23: in every Tool Descriptor produced by reflection each name of
\* inputSchema.required is a key of inputSchema.properties, and a callable
\* with no discoverable parameters has an empty properties mapping and an
\* empty required list.
C23_RequiredAreProperties ==
  \A i \in 1..Len(Registry) :
    LET tool == Registry[i]
    IN  /\ \A r \in 1..Len(tool.required) :
             tool.required[r] \in PropertyNames(tool)
        /\ HandlerParams(tool.handler) = <<>> =>
             tool.properties = <<>> /\ tool.required = <<>>

\* the registry holds a tool of a callable without parameters and a tool
\* with a required parameter
C23_Witness ==
  /\ \E i \in 1..Len(Registry) :
       /\ HandlerParams(Registry[i].handler) = <<>>
       /\ Registry[i].properties = <<>>
  /\ \E i \in 1..Len(Registry) :
       /\ Registry[i].required = <<"a">>
       /\ PropertyNames(Registry[i]) = {"a"}

\* the host modules the loaded module obtained through its require function
Bindings == IF IsSome(executor) THEN Get(executor).context.bindings ELSE <<>>

\* C24: the require function given to the loaded module permits only
\* relative imports, resolved against the module's own directory: a require
\* of an identifier that does not start with '.' returns no host module, so
\* every module the loaded module holds lies in its own directory.
C24_OnlyRelativeRequires ==
  \A i \in 1..Len(Bindings) :
    /\ Len(Bindings[i]) > Len(ModuleDir)
    /\ SubSeq(Bindings[i], 1, Len(ModuleDir)) = ModuleDir

DefaultedFormals(tool) ==
  LET formals == Callables[tool.handler].formals
  IN  {formals[i] : i \in {j \in 1..Len(formals) : IsSome(formals[j].default)}}

\* C26: for every callable whose parameter list holds a default-valued
\* parameter, the inferred parameter has hasDefault = true, its type is the
\* kind of the default literal whatever the parameter's name, and the
\* parameter is not listed in required.
C26_DefaultsGiveTheType ==
  \A i \in 1..Len(Registry) :
    \A formal \in DefaultedFormals(Registry[i]) :
      LET tool == Registry[i]
          params == extractParameters(toString(Callables[tool.handler]))
      IN  /\ \E p \in 1..Len(params) :
               /\ params[p].name = formal.name
               /\ params[p].hasDefault
               /\ params[p].type = Get(formal.default).kind
          /\ \E q \in 1..Len(tool.properties) :
               /\ tool.properties[q].name = formal.name
               /\ tool.properties[q].type = Get(formal.default).kind
          /\ \A r \in 1..Len(tool.required) : tool.required[r] # formal.name

\* the description the generator gives a tool
DefaultDescription(tool) == "Execute " \o tool.name \o " function"

\* C27: a callable declared with a documentation block comment immediately
\* in front of it gets a Tool Descriptor whose description is the text of
\* that comment, its markers stripped, its lines joined with blanks, and
\* trimmed; only a callable without a documentation comment gets the
\* generated description.
C27_DescriptionIsTheComment ==
  \A i \in 1..Len(Registry) :
    LET tool == Registry[i]
        func == Callables[tool.handler]
    IN  /\ func.leading = AreaComment =>
             tool.description = "Calculate the area of a circle"
        /\ tool.description = DefaultDescription(tool) =>
             /\ func.leading = <<>>
             /\ \A t \in 1..Len(func.text) : func.text[t] # "/**"

\* the names of a list of tools, in its order
Names(tools) == [i \in 1..Len(tools) |-> tools[i].name]

\* the list tools/list serves and the list of the document GET /mcp-config
\* serves, for the executor that is bound
ServedTools ==
  Get(handleMCPRequest([id |-> Some(7), method |-> "tools/list",
                        params |-> None], Get(executor)).result).tools

EndpointTools == generateMCPConfig(getTools(Get(executor))).tools

\* C28: the configuration document is derived from the Tool Registry.  The
\* list of tools in the document loadModule returned has the same names and
\* the same count as the list tools/list serves and as the list of the
\* document of the configuration endpoint, and no entry carries a handler.
C28_DocumentListsTheRegistry ==
  (api.op = "loadModule" /\ IsSome(api.value)) =>
    LET document == Get(api.value).tools
    IN  /\ Names(document) = Names(ServedTools)
        /\ Names(document) = Names(EndpointTools)
        /\ \A i \in 1..Len(document) : "handler" \notin DOMAIN document[i]
        /\ \A i \in 1..Len(ServedTools) :
             "handler" \notin DOMAIN ServedTools[i]
        /\ \A i \in 1..Len(EndpointTools) :
             "handler" \notin DOMAIN EndpointTools[i]

\* the discoverable callables of a value in traversal order: depth first, in
\* the order of the entries, with the tool name of each path
RECURSIVE CallablesInOrder(_, _)
CallablesInOrder(value, path) ==
  IF value.type = "function"
  THEN << [name |-> PathName(path), handler |-> value.handler] >>
  ELSE IF value.type = "object"
  THEN LET RECURSIVE Members(_)
           Members(i) ==
             IF i > Len(value.entries) THEN <<>>
             ELSE CallablesInOrder(value.entries[i][2],
                                   Append(path, value.entries[i][1]))
                  \o Members(i + 1)
       IN  Members(1)
  ELSE <<>>

\* the callable registered last under a name
LaterHandler(value, name) ==
  LET found == CallablesInOrder(value, <<>>)
      at == CHOOSE i \in 1..Len(found) :
              /\ found[i].name = name
              /\ \A j \in (i + 1)..Len(found) : found[j].name # name
  IN  found[at].handler

\* C29: when two exported paths collapse to the same tool name, the registry
\* keeps exactly one entry for the name, its handler is the callable that
\* comes later in traversal order, and a tools/call of the name invokes that
\* callable: the handler receives as many values as the later callable, whose
\* descriptor is the last of that name in the reflected list, has
\* parameters.
C29_LastWriteWins ==
  [][/\ \A file \in ModuleFiles :
          Loads(file) =>
            \A name \in {PathName(path) : path \in CallablePaths(file.exports)} :
              LET entries == {i \in 1..Len(getTools(Get(executor'))) :
                                getTools(Get(executor'))[i].name = name}
              IN  /\ Cardinality(entries) = 1
                  /\ \A i \in entries :
                       getTools(Get(executor'))[i].handler =
                         LaterHandler(file.exports, name)
     /\ (/\ last' # last
         /\ last'.call.invoked
         /\ api.op = "loadModule"
         /\ IsSome(api.value)) =>
           LET reflected == Get(api.value).tools
               later == CHOOSE i \in 1..Len(reflected) :
                          /\ reflected[i].name = last'.call.toolName
                          /\ \A j \in (i + 1)..Len(reflected) :
                               reflected[j].name # last'.call.toolName
           IN  Len(last'.call.received) = Len(reflected[later].required)]_vars

\* the module { a_b: one, a: { b: pair } } is loaded and a_b is called with
\* two values: the registry holds pair under a_b, and pair received both
C29_Witness ==
  /\ api.op = "loadModule"
  /\ IsSome(api.value)
  /\ Names(Get(api.value).tools) = <<"a_b", "a_b">>
  /\ Names(Registry) = <<"a_b">>
  /\ Registry[1].handler = "pair"
  /\ Executed
  /\ last.call.toolName = "a_b"
  /\ last.call.received = <<Some(1), Some(2)>>

\* C30: the export walk.  A callable export yields exactly one tool, named
\* "default".  For an aggregate export every callable reached through plain
\* aggregates, at any depth, yields one tool named by its keys joined with
\* underscores; scalar, null and array members yield no tool and are not
\* walked into.
C30_ExportWalk ==
  [][\A file \in ModuleFiles :
       (loadModule(file) /\ ~LoadFails(file, reflectorTimeout)) =>
         LET reflected == Get(api'.value).tools
             paths == CallablePaths(file.exports)
         IN  /\ Len(reflected) = Cardinality(paths)
             /\ {reflected[i].name : i \in 1..Len(reflected)} =
                  {PathName(path) : path \in paths}
             /\ file.exports.type = "function" =>
                  Names(reflected) = <<"default">>
             /\ file.exports.type \notin {"function", "object"} =>
                  reflected = <<>>]_vars

\* the module { math: { area, deep: { one } }, version: 1, items: [pair],
\* nothing: null, now } is loaded: three tools, one of them two aggregates
\* deep, and none for the callable inside the array
C30_Witness ==
  /\ api.op = "loadModule"
  /\ IsSome(api.value)
  /\ Names(Get(api.value).tools) = <<"math_area", "math_deep_one", "now">>
  /\ Names(Registry) = <<"math_area", "math_deep_one", "now">>

\* the callable behind a tool, and whether it is declared in the arrow form
Declared(tool) == Callables[tool.handler]

IsArrow(func) == Head(func.text) # "function"

\* the names of the parameters extractParameters finds in a callable
Extracted(func) == Names(extractParameters(toString(func)))

\* C31: signature inference handles the arrow form.  For a callable whose
\* source is an arrow function with a parenthesised parameter list, such as
\* (a, b) => [a, b], the parameters found are exactly its declared parameters
\* in order, the same as for the function declaration with that parameter
\* list, and they are the properties of its tool.
C31_ArrowParameters ==
  \A i \in 1..Len(Registry) :
    LET func == Declared(Registry[i])
    IN  IsArrow(func) =>
          /\ Extracted(func) = Names(func.formals)
          /\ Extracted(func) =
               Extracted(FunctionDeclaration("f", func.formals, <<>>, <<>>))
          /\ Names(Registry[i].properties) = Names(func.formals)

\* C32: the parameter list is split on top-level commas only.  For a
\* callable declared as a function, the number of parameters found is the
\* number of declared parameters and their names are the declared names,
\* also when a default value holds a comma.
C32_SplitsBetweenParameters ==
  \A i \in 1..Len(Registry) :
    LET func == Declared(Registry[i])
    IN  ~IsArrow(func) =>
          /\ Len(extractParameters(toString(func))) = Len(func.formals)
          /\ Extracted(func) = Names(func.formals)

\* the type the name of a parameter of the inputs suggests
SuggestedType(name) ==
  CASE name = "list" -> "array"
    [] name = "Count" -> "number"
    [] name = "flag" -> "boolean"
    [] name = "options" -> "object"
    [] OTHER -> "string"

\* C33: type inference by name for a parameter without a default.  A
\* parameter named list is inferred as array, one whose name holds count as
\* number, flag as boolean, options as object, and any other as string.
C33_NamesGiveTheType ==
  \A i \in 1..Len(Registry) :
    LET func == Declared(Registry[i])
        params == extractParameters(toString(func))
    IN  (~IsArrow(func)
         /\ \A f \in 1..Len(func.formals) : ~IsSome(func.formals[f].default))
        => /\ Len(params) = Len(func.formals)
           /\ \A f \in 1..Len(params) :
                /\ params[f].name = func.formals[f].name
                /\ params[f].type = SuggestedType(func.formals[f].name)

\* the lines of a kind written to a client
Holds(client, method) ==
  \E k \in 1..Len(client.received) : client.received[k].method = method

\* a client of the table whose transport works
Open(client) ==
  ~client.removed /\ ~client.destroyed /\ ~client.writeFails

\* C34: an open push client to which heartbeats are written is not evicted
\* by the maintenance sweep.  A client of the table whose transport works,
\* whose heartbeat interval runs and to which a heartbeat has been written
\* is still in the table after a sweep, also when no tool_result is ever
\* broadcast.
C34_HeartbeatKeepsClient ==
  [][Sweep =>
       \A i \in Clients :
         (/\ Open(sseClients[i])
          /\ sseClients[i].heartbeat
          /\ Holds(sseClients[i], ": heartbeat"))
         => Has(sseClients', i)]_vars

\* C35: a tool_result notification is broadcast only for a tools/call whose
\* tool was executed.  Every tool_result a push client has received names a
\* tool of the registry; a tools/call rejected for a missing or unregistered
\* name puts no tool_result on any client.
C35_ToolResultOnlyWhenExecuted ==
  \A i \in Clients :
    \A k \in 1..Len(sseClients[i].received) :
      LET line == sseClients[i].received[k]
      IN  line.method = "notifications/tool_result" =>
            /\ IsSome(line.toolName)
            /\ IsSome(executor)
            /\ IsSome(getTool(Get(executor), Get(line.toolName)))

\* C36: no push client receives a tool_result before it has received its
\* initialized notification.
C36_InitializedBeforeToolResult ==
  \A i \in Clients :
    \A k \in 1..Len(sseClients[i].received) :
      sseClients[i].received[k].method = "notifications/tool_result" =>
        \E j \in 1..(k - 1) :
          sseClients[i].received[j].method = "notifications/initialized"

\* C37: a broadcast removes a push client from the table only when the write
\* to that client's transport failed.  A request of the execute route, also
\* one whose result cannot be serialised, leaves every client in the table
\* whose transport does not throw on write.
C37_BroadcastRemovesOnlyFailedWrites ==
  [][(\E toolName \in {"pair", "nosuch"}, args \in ExecuteBags,
         beh \in ExecuteBehaviours : ExecuteRequest(toolName, args, beh))
     => \A i \in Clients :
          (Has(sseClients, i) /\ ~Has(sseClients', i))
            => sseClients[i].writeFails]_vars

\* C38: after a push client has been removed from the table, by a
\* disconnect, a failed write, the sweep or the close of the listener,
\* nothing is written to its transport: no handshake message, no heartbeat
\* and no tool_result.  The lines of a removed client are those written
\* since its removal.
C38_NothingWrittenAfterRemoval ==
  \A i \in Clients :
    sseClients[i].removed => sseClients[i].received = <<>>

\* a client with a working transport was ended and removed by the sweep or
\* by the close of the listener, its heartbeat callback has run since and
\* has cleared the interval, and a tool has been executed and broadcast
C38_Witness ==
  /\ \E i \in Clients :
       /\ sseClients[i].removed
       /\ sseClients[i].ended = 1
       /\ ~sseClients[i].destroyed
       /\ ~sseClients[i].writeFails
       /\ ~sseClients[i].heartbeat
       /\ sseClients[i].timer = "none"
       /\ sseClients[i].received = <<>>
  /\ last.message.method = "POST /execute/:toolName"
  /\ IsSome(last.response)
  /\ Get(last.response).status = 200
====
